---- MODULE Spec2Model ----
(***************************************************************************)
(* The GPIO TCP server (raspberry-pi/gpio_server.c, src/unnamed/part_000)  *)
(* and the pigpiod client of the Open Ephys plugin (PigpiodClient,         *)
(* PigpiodOutput), as one state machine over a byte-stream network.        *)
(*                                                                         *)
(* A 32-bit word on the wire or in a C variable (uint32_t, int32_t, int)   *)
(* is carried as the integer in -2^31 .. 2^31-1 with the same two's        *)
(* complement bit pattern: 4294967295 is carried as -1.  A register word   *)
(* of the mapped block is carried as the set of its 1-bits (bit 0 = LSB).  *)
(***************************************************************************)
EXTENDS Integers, Sequences, FiniteSets, TLC

\* ---------------------------------------------------------------- bounds
\* Frames a raw peer sends over the whole run.
MaxFrames == 2
\* TCP connections opened over the whole run.
MaxConns == 2
\* Calls made into the plugin or the client over the whole run.
MaxOps == 3
\* Earlier writes a register block under test has seen.
MaxEarlier == 2

\* ------------------------------------------------- constants of the server
BLOCK_SIZE == 4096
GPFSEL0 == 0
GPSET0 == 7
GPCLR0 == 10
PI_CMD_WRITE == 4
PI_CMD_TRIG == 37
PI_CMD_PIGPV == 26
PI_OUTPUT == 1
\* status = 79 of the version command
PIGPV_STATUS == 79
\* the 16 bytes of a command or response frame
FrameLen == 16
\* the 4 bytes of the TRIG extension the server reads
ExtLen == 4
\* pins of the chip family: the client's check gpio < 0 || gpio > 53
MaxGpio == 53

BlockWords == BLOCK_SIZE \div 4
Conns == 1..MaxConns
Pins == 0..MaxGpio

\* ------------------------------------------------------------ frame codec
\* memcpy of a 32-bit word to 4 bytes on a little-endian machine.
Byte(x, i) == (x \div (256 ^ i)) % 256
LE32(x) == <<Byte(x, 0), Byte(x, 1), Byte(x, 2), Byte(x, 3)>>

\* Mutant: the 4 bytes taken most significant first.
DecodeU32_be(b) ==
    b[4] + 256 * b[3] + 65536 * b[2]
         + 16777216 * (IF b[1] >= 128 THEN b[1] - 256 ELSE b[1])

\* memcpy of 4 bytes to a 32-bit word.
DecodeU32(b) ==
    b[1] + 256 * b[2] + 65536 * b[3]
         + 16777216 * (IF b[4] >= 128 THEN b[4] - 256 ELSE b[4])

\* cmdBuf of sendCommand: cmd, p1, p2, p3 at offsets 0, 4, 8, 12.
EncodeFrame(c, a, b, e) == LE32(c) \o LE32(a) \o LE32(b) \o LE32(e)

\* res_buf of handle_client: {0}, then the status at offset 0.
EncodeStatus(st) == LE32(st) \o [i \in 1..(FrameLen - 4) |-> 0]

Take(s, n) == SubSeq(s, 1, n)
Drop(s, n) == SubSeq(s, n + 1, Len(s))

\* ------------------------------------------------------ register driver
\* C integer division and remainder (truncation toward zero).
CDiv(a, b) == IF a >= 0 THEN a \div b ELSE -((-a) \div b)
CRem(a, b) == a - b * CDiv(a, b)

AllBits == 0..31
\* w << k on a 32-bit word, 0 <= k
Shl(w, k) == {b + k : b \in w} \cap AllBits
BitNot(w) == AllBits \ w

fsel_index(gpio) == GPFSEL0 + CDiv(gpio, 10)
fsel_shift(gpio) == CRem(gpio, 10) * 3
set_index(gpio) == GPSET0 + CDiv(gpio, 32)
clr_index(gpio) == GPCLR0 + CDiv(gpio, 32)
pin_bit(gpio) == CRem(gpio, 32)

\* The access is inside the mapped 4 KiB block and the shift count is not
\* negative; otherwise the C program's behaviour is undefined.
InBlock(idx) == idx \in 0..(BlockWords - 1)
mode_defined(gpio) == InBlock(fsel_index(gpio)) /\ fsel_shift(gpio) >= 0
set_defined(gpio) == InBlock(set_index(gpio)) /\ pin_bit(gpio) >= 0
clr_defined(gpio) == InBlock(clr_index(gpio)) /\ pin_bit(gpio) >= 0

\* Mutant: the field is stored without the other bits read before.
fsel_value_plain(value, gpio, mode) ==
    IF mode = PI_OUTPUT THEN Shl({0}, fsel_shift(gpio)) ELSE {}

\* value &= ~(7 << shift); if (mode == PI_OUTPUT) value |= (1 << shift);
fsel_value(value, gpio, mode) ==
    LET cleared == value \cap BitNot(Shl({0, 1, 2}, fsel_shift(gpio)))
    IN IF mode = PI_OUTPUT THEN cleared \cup Shl({0}, fsel_shift(gpio))
       ELSE cleared

\* The block is kept as the words that have been given a value; every
\* other word of it reads as zero.
Word(map, idx) == IF idx \in DOMAIN map THEN map[idx] ELSE {}
Put(map, idx, val) ==
    [i \in DOMAIN map \cup {idx} |-> IF i = idx THEN val ELSE map[i]]

gpio_set_mode(map, gpio, mode) ==
    Put(map, fsel_index(gpio), fsel_value(Word(map, fsel_index(gpio)), gpio, mode))

\* Mutant: the bit is or-ed into the word read back from the set register.
gpio_set_or(map, gpio) ==
    Put(map, set_index(gpio), Word(map, set_index(gpio)) \cup Shl({0}, pin_bit(gpio)))

\* gpio_map[GPSET0 + gpio/32] = 1 << (gpio % 32); gcc compiles 1 << 31 to
\* the word with bit 31 set.
gpio_set(map, gpio) == Put(map, set_index(gpio), Shl({0}, pin_bit(gpio)))

gpio_clear(map, gpio) == Put(map, clr_index(gpio), Shl({0}, pin_bit(gpio)))

\* Mutant: the two registers swapped.
gpio_write_swapped(map, gpio, lvl) ==
    IF lvl # 0 THEN gpio_clear(map, gpio) ELSE gpio_set(map, gpio)
gpio_write(map, gpio, lvl) ==
    IF lvl # 0 THEN gpio_set(map, gpio) ELSE gpio_clear(map, gpio)

write_index(gpio, lvl) == IF lvl # 0 THEN set_index(gpio) ELSE clr_index(gpio)
write_defined(gpio, lvl) == IF lvl # 0 THEN set_defined(gpio) ELSE clr_defined(gpio)

\* gpio_trig: the first and the second edge of the pulse, as a level written.
trig_first(lvl) == IF lvl # 0 THEN 1 ELSE 0
\* Mutant: the low pulse ends low as well.
trig_second_low(lvl) == 0
trig_second(lvl) == IF lvl # 0 THEN 0 ELSE 1

\* The output latch of the chip: a store of word val to the set registers
\* drives the pins of its 1-bits high, a store to the clear registers drives
\* them low, any other store leaves the pins alone.
hw_after(high, idx, val) ==
    IF idx \in {GPSET0, GPSET0 + 1}
    THEN high \cup ({32 * (idx - GPSET0) + b : b \in val} \cap Pins)
    ELSE IF idx \in {GPCLR0, GPCLR0 + 1}
    THEN high \ {32 * (idx - GPCLR0) + b : b \in val}
    ELSE high

\* delay_us: ts.tv_nsec = us * 1000 in uint32_t arithmetic, as the two 16-bit
\* halves <<high, low>> of the product.
ns_halves(us) ==
    LET lo == us % 65536
        hi == (us \div 65536) % 65536
        a  == lo * 1000
    IN <<(hi * 1000 + a \div 65536) % 65536, a % 65536>>

\* nanosleep accepts 0 <= tv_nsec < 1000000000 (= 15258 * 65536 + 51712).
ns_valid(h) == h[1] < 15258 \/ (h[1] = 15258 /\ h[2] < 51712)

\* The nanoseconds delay_us sleeps: the request, or 0 when nanosleep
\* rejects it (EINVAL, the return value is not looked at).
delay_us(us) ==
    IF ns_valid(ns_halves(us)) THEN ns_halves(us)[1] * 65536 + ns_halves(us)[2]
    ELSE 0

\* ------------------------------------------------- constants of the client
PI_CMD_MODES == 5
PI_LOW == 0
PI_NOT_CONNECTED == -1
PI_SOCKET_ERROR == -2
PI_BAD_GPIO == -3
maxAttempts == 100

\* The defaults of the parameters input_line, pulse_duration and gpio_pin.
input_line == 1
pulse_duration == 50
gpio_pin_default == 17

\* The audio thread (process, handleTTLEvent) and the message thread (the
\* editor's button, parameter changes, stopAcquisition).
Threads == {"audio", "msg"}

\* A call of a method of PigpiodClient with its arguments.
Api(name, a, b) == [api |-> name, a |-> a, b |-> b]

\* A thread outside the plugin.  cmd, p1, p2, totalReceived, attempts and
\* resBuf are the locals of sendCommand; fd, req, from and ones are
\* history: the connection its frame went to, the number of that frame on
\* the connection, the offset in the connection's response stream of the
\* first byte it read, and whether every read of the loop so far returned
\* exactly 1 byte.
IdleThread ==
    [pc |-> "idle", op |-> "none", api |-> "none", a |-> 0, b |-> 0,
     plan |-> <<>>, cmd |-> 0, p1 |-> 0, p2 |-> 0,
     totalReceived |-> 0, attempts |-> 0, resBuf |-> <<>>,
     fd |-> 0, req |-> 0, from |-> 0, ones |-> TRUE, ret |-> 0]

\* --------------------------------------------------------------- state
VARIABLES
    \* server (gpio_server.c)
    s_pc,        \* position of main / handle_client
    s_fd,        \* client_fd: the connection being served, 0 = none
    cmd, p1, p2, p3,   \* the decoded frame
    level,       \* uint32_t level of the TRIG case
    status,      \* int32_t status
    gpio_map,    \* the mapped register block, word index -> word
    pin_high,    \* the pins the chip drives high
    \* network: one byte stream per direction and connection
    nconn,       \* connections opened so far
    backlog,     \* connections completed and not yet accepted
    c2s, s2c,    \* bytes in flight to the server / to the client
    cli_open,    \* the client's end is open
    srv_open,    \* the server's end is open (not closed, process alive)
    sent_len,    \* history: bytes the client's end has sent
    sent_at,     \* history: the offsets at which its frames started
    ext_sent,    \* history: <<offset, level>> of the extensions it sent
    \* raw peer: any program that speaks the wire protocol
    peer_fd,     \* its connection, 0 = none
    peer_owed,   \* extension bytes of its last frame still to send
    peer_n,      \* frames it has sent over the run
    \* history of the connection being served
    hw_trace,    \* what the server did since it read the last frame
    answered,    \* <<cmd, status>> of the responses sent, in order
    rd_off,      \* bytes consumed
    frame_at,    \* offsets at which the frames read started, in order
    \* PigpiodClient
    socket,      \* 0 = nullptr, -1 = a socket not connected, else its connection
    lastError,
    recv_len,    \* history: bytes the client has read from each connection
    th,          \* the threads inside the plugin: position and locals
    \* PigpiodOutput
    connected,
    gateIsOpen,
    gpio_pin,    \* parameter gpio_pin
    gate_line,   \* parameter gate_line of the stream
    n_ops,       \* calls made into the plugin or the client over the run
    \* startup of the server, the stream's events, calls under test
    boot,        \* history: how the steps of main before the loop ended
    gate_ev,     \* history: the latest TTL event, and the latest on the gate line
    tst          \* a function called on its own: its inputs and its result

srv_vars == <<s_pc, s_fd, cmd, p1, p2, p3, level, status, gpio_map, pin_high>>
net_vars == <<nconn, backlog, c2s, s2c, cli_open, srv_open>>
sent_vars == <<sent_len, sent_at, ext_sent>>
peer_vars == <<peer_fd, peer_owed, peer_n>>
hist_vars == <<hw_trace, answered, rd_off, frame_at>>
client_vars == <<socket, lastError, recv_len, th, connected, gateIsOpen,
                 gpio_pin, gate_line, n_ops>>
aux_vars == <<boot, gate_ev, tst>>
vars == <<srv_vars, net_vars, sent_vars, peer_vars, hist_vars, client_vars,
          aux_vars>>

\* Frames read and responses sent on the connection being served.
nRead == Len(frame_at)
nSent == Len(answered)

\* Prior contents of the function-select words: reset value, and all pins
\* on alternate function 111.
InitFsel == {{}, AllBits \ {30, 31}}

InitServer ==
    /\ s_pc = "accept"
    /\ s_fd = 0
    /\ cmd = 0 /\ p1 = 0 /\ p2 = 0 /\ p3 = 0
    /\ level = 1
    /\ status = 0
    /\ \E f \in InitFsel : gpio_map = [i \in 0..5 |-> f]
    /\ pin_high = {}

InitNet ==
    /\ nconn = 0
    /\ backlog = <<>>
    /\ c2s = [c \in Conns |-> <<>>]
    /\ s2c = [c \in Conns |-> <<>>]
    /\ cli_open = [c \in Conns |-> FALSE]
    /\ srv_open = [c \in Conns |-> FALSE]
    /\ sent_len = [c \in Conns |-> 0]
    /\ sent_at = [c \in Conns |-> {}]
    /\ ext_sent = [c \in Conns |-> {}]

InitPeer ==
    /\ peer_fd = 0
    /\ peer_owed = 0
    /\ peer_n = 0

InitHist ==
    /\ hw_trace = <<>>
    /\ answered = <<>>
    /\ rd_off = 0
    /\ frame_at = <<>>

\* The constructors: port 8888 and no socket; connected (false), gateIsOpen
\* (true); the parameters at their defaults.
InitClient ==
    /\ socket = 0
    /\ lastError = ""
    /\ recv_len = [c \in Conns |-> 0]
    /\ th = [t \in Threads |-> IdleThread]
    /\ connected = FALSE
    /\ gateIsOpen = TRUE
    /\ gpio_pin = gpio_pin_default
    /\ gate_line = 0
    /\ n_ops = 0

\* A server started with the privileges its header asks for (sudo): the
\* real-time priority and the memory lock were granted, the block is
\* mapped, the socket listens.
Booted == [rt |-> "ok", lock |-> "ok", fatal |-> "none"]

\* No TTL event has arrived.
NoEvent == [gate |-> "none", last |-> <<0, FALSE>>]

\* No function is under test.
NoTest == [fn |-> "none"]

InitAux ==
    /\ boot = Booted
    /\ gate_ev = NoEvent
    /\ tst = NoTest

Init ==
    /\ InitServer /\ InitNet /\ InitPeer /\ InitHist /\ InitClient /\ InitAux

\* ------------------------------------------------------------- server
\* The positions of main before the accept loop.
StartupPcs == {"sched", "mlock", "init_gpio", "socket", "bind", "listen"}

\* The process runs and its socket listens.
Alive == s_pc \notin {"crashed", "killed", "exit"} \cup StartupPcs

Ev(e, a, b) == <<e, a, b>>

\* A step of main before the loop: from position pc to position to, how
\* it ended recorded in boot; nothing else of the state is touched.
startup(pc, to, b) ==
    /\ s_pc = pc
    /\ s_pc' = to
    /\ boot' = b
    /\ UNCHANGED <<s_fd, cmd, p1, p2, p3, level, status, gpio_map, pin_high>>
    /\ UNCHANGED <<net_vars, sent_vars, peer_vars, hist_vars, client_vars>>
    /\ UNCHANGED <<gate_ev, tst>>

\* return 1 of main: the step at position pc failed.
fatal(pc) == startup(pc, "exit", [boot EXCEPT !.fatal = pc])

\* Mutant: without the real-time priority main gives up.
main_sched_fatal(ok) ==
    IF ok THEN startup("sched", "mlock", [boot EXCEPT !.rt = "ok"])
    ELSE fatal("sched")

\* sched_setscheduler(0, SCHED_FIFO, &param): a warning when it fails.
main_sched(ok) ==
    /\ boot.rt = "unset"
    /\ startup("sched", "mlock",
               [boot EXCEPT !.rt = IF ok THEN "ok" ELSE "failed"])

\* mlockall(MCL_CURRENT | MCL_FUTURE): a warning when it fails.
main_mlockall(ok) ==
    /\ boot.lock = "unset"
    /\ startup("mlock", "init_gpio",
               [boot EXCEPT !.lock = IF ok THEN "ok" ELSE "failed"])

\* init_gpio() < 0 (open or mmap failed): return 1.
main_init_gpio(ok) ==
    IF ok THEN startup("init_gpio", "socket", boot) ELSE fatal("init_gpio")

\* socket(AF_INET, SOCK_STREAM, 0) < 0: return 1.
main_socket(ok) ==
    IF ok THEN startup("socket", "bind", boot) ELSE fatal("socket")

\* bind(...) < 0: return 1.
main_bind(ok) ==
    IF ok THEN startup("bind", "listen", boot) ELSE fatal("bind")

\* listen(server_fd, 5) < 0: return 1; otherwise the accept loop.
main_listen(ok) ==
    IF ok THEN startup("listen", "accept", boot) ELSE fatal("listen")

\* Mutant: a connection is accepted while another one is being served.
main_accept_any ==
    /\ s_pc \in {"accept", "recv"}
    /\ backlog # <<>>
    /\ s_fd' = Head(backlog)
    /\ backlog' = Tail(backlog)
    /\ srv_open' = [srv_open EXCEPT ![Head(backlog)] = TRUE]
    /\ s_pc' = "recv"
    /\ hw_trace' = <<>> /\ answered' = <<>> /\ rd_off' = 0 /\ frame_at' = <<>>
    /\ UNCHANGED <<cmd, p1, p2, p3, level, status, gpio_map, pin_high>>
    /\ UNCHANGED <<nconn, c2s, s2c, cli_open>>
    /\ UNCHANGED sent_vars
    /\ UNCHANGED <<peer_vars, client_vars, aux_vars>>

\* main: client_fd = accept(...); handle_client(client_fd)
main_accept ==
    /\ s_pc = "accept"
    /\ backlog # <<>>
    /\ s_fd' = Head(backlog)
    /\ backlog' = Tail(backlog)
    /\ srv_open' = [srv_open EXCEPT ![Head(backlog)] = TRUE]
    /\ s_pc' = "recv"
    /\ hw_trace' = <<>> /\ answered' = <<>> /\ rd_off' = 0 /\ frame_at' = <<>>
    /\ UNCHANGED <<cmd, p1, p2, p3, level, status, gpio_map, pin_high>>
    /\ UNCHANGED <<nconn, c2s, s2c, cli_open>>
    /\ UNCHANGED sent_vars
    /\ UNCHANGED <<peer_vars, client_vars, aux_vars>>

\* The position after the switch on cmd, up to the first call that blocks
\* or touches the register block.
after_switch(c, e) ==
    IF c = PI_CMD_WRITE THEN "mode"
    ELSE IF c = PI_CMD_TRIG THEN (IF e = ExtLen THEN "ext" ELSE "mode")
    ELSE "send"

\* Mutant: the default case leaves status 0.
switch_status_ok(c) == IF c = PI_CMD_PIGPV THEN PIGPV_STATUS ELSE 0
\* The status the switch leaves: 79 for PIGPV, -1 in the default case, 0
\* otherwise.
switch_status(c) ==
    IF c = PI_CMD_PIGPV THEN PIGPV_STATUS
    ELSE IF c \in {PI_CMD_WRITE, PI_CMD_TRIG} THEN 0
    ELSE -1

\* n = recv(client_fd, cmd_buf, 16, MSG_WAITALL) returned 16: parse, switch.
hc_recv_frame ==
    /\ s_pc = "recv"
    /\ Len(c2s[s_fd]) >= FrameLen
    /\ LET b == Take(c2s[s_fd], FrameLen)
           c == DecodeU32(SubSeq(b, 1, 4))
           e == DecodeU32(SubSeq(b, 13, 16))
       IN /\ cmd' = c
          /\ p1' = DecodeU32(SubSeq(b, 5, 8))
          /\ p2' = DecodeU32(SubSeq(b, 9, 12))
          /\ p3' = e
          /\ status' = switch_status(c)
          /\ s_pc' = after_switch(c, e)
    /\ level' = 1
    /\ c2s' = [c2s EXCEPT ![s_fd] = Drop(@, FrameLen)]
    /\ hw_trace' = <<>>
    /\ frame_at' = Append(frame_at, rd_off)
    /\ rd_off' = rd_off + FrameLen
    /\ UNCHANGED <<s_fd, gpio_map, pin_high, answered>>
    /\ UNCHANGED <<nconn, backlog, s2c, cli_open, srv_open>>
    /\ UNCHANGED sent_vars
    /\ UNCHANGED <<peer_vars, client_vars, aux_vars>>

\* Mutant: a short read is answered like a frame.
hc_recv_fail_answers ==
    /\ s_pc = "recv"
    /\ Len(c2s[s_fd]) < FrameLen
    /\ ~cli_open[s_fd]
    /\ c2s' = [c2s EXCEPT ![s_fd] = <<>>]
    /\ rd_off' = rd_off + Len(c2s[s_fd])
    /\ hw_trace' = Append(hw_trace, Ev("eof", Len(c2s[s_fd]), {}))
    /\ s_pc' = "send"
    /\ UNCHANGED <<s_fd, cmd, p1, p2, p3, level, status, gpio_map, pin_high>>
    /\ UNCHANGED <<nconn, backlog, s2c, cli_open, srv_open>>
    /\ UNCHANGED sent_vars
    /\ UNCHANGED <<peer_vars, client_vars, aux_vars>>
    /\ UNCHANGED <<answered, frame_at>>

\* recv returned n != 16: the peer closed with fewer than 16 bytes unread
\* (n = 0 orderly close, 0 < n < 16 or n < 0 otherwise); break.
hc_recv_fail ==
    /\ s_pc = "recv"
    /\ Len(c2s[s_fd]) < FrameLen
    /\ ~cli_open[s_fd]
    /\ c2s' = [c2s EXCEPT ![s_fd] = <<>>]
    /\ rd_off' = rd_off + Len(c2s[s_fd])
    /\ hw_trace' = Append(hw_trace, Ev("eof", Len(c2s[s_fd]), {}))
    /\ s_pc' = "close"
    /\ UNCHANGED <<s_fd, cmd, p1, p2, p3, level, status, gpio_map, pin_high>>
    /\ UNCHANGED <<nconn, backlog, s2c, cli_open, srv_open>>
    /\ UNCHANGED sent_vars
    /\ UNCHANGED <<peer_vars, client_vars, aux_vars>>
    /\ UNCHANGED <<answered, frame_at>>

\* The bytes of level after recv stored n bytes at its address.
overlay(old, bytes) ==
    DecodeU32([i \in 1..4 |-> IF i <= Len(bytes) THEN bytes[i] ELSE LE32(old)[i]])

\* recv(client_fd, &level, 4, MSG_WAITALL); the return value is not looked
\* at: with the peer gone, the bytes that did arrive are stored all the same.
hc_ext ==
    /\ s_pc = "ext"
    /\ \/ Len(c2s[s_fd]) >= ExtLen
       \/ ~cli_open[s_fd]
    /\ LET n == IF Len(c2s[s_fd]) >= ExtLen THEN ExtLen ELSE Len(c2s[s_fd])
       IN /\ level' = overlay(level, Take(c2s[s_fd], n))
          /\ c2s' = [c2s EXCEPT ![s_fd] = Drop(@, n)]
          /\ rd_off' = rd_off + n
          /\ hw_trace' = Append(hw_trace, Ev("ext", n, {}))
    /\ s_pc' = "mode"
    /\ UNCHANGED <<s_fd, cmd, p1, p2, p3, status, gpio_map, pin_high>>
    /\ UNCHANGED <<nconn, backlog, s2c, cli_open, srv_open>>
    /\ UNCHANGED sent_vars
    /\ UNCHANGED <<peer_vars, client_vars, aux_vars>>
    /\ UNCHANGED <<answered, frame_at>>

\* Mutant: the response goes out after the first edge of the pulse.
after_step_early(pc, c) ==
    CASE pc = "mode" -> (IF c = PI_CMD_WRITE THEN "write" ELSE "edge1")
      [] pc = "write" -> "send"
      [] pc = "edge1" -> "send"
      [] OTHER -> pc
\* The position after a step of the WRITE case (gpio_set_mode, gpio_write)
\* or of the TRIG case (gpio_set_mode, then gpio_trig: write, delay_us,
\* write); the send follows the switch.
after_step(pc, c) ==
    CASE pc = "mode" -> (IF c = PI_CMD_WRITE THEN "write" ELSE "edge1")
      [] pc = "write" -> "send"
      [] pc = "edge1" -> "hold"
      [] pc = "hold" -> "edge2"
      [] pc = "edge2" -> "send"
      [] OTHER -> pc

\* The process is gone (SIGSEGV, SIGPIPE): the kernel closes its sockets.
die(how) ==
    /\ s_pc' = how
    /\ srv_open' = [c \in Conns |-> FALSE]
    /\ backlog' = <<>>

\* A store to word idx of the block, seen by the chip.
store(map2, idx) ==
    /\ gpio_map' = map2
    /\ pin_high' = hw_after(pin_high, idx, Word(map2, idx))
    /\ hw_trace' = Append(hw_trace, Ev("store", idx, Word(map2, idx)))

\* gpio_set_mode(p1, PI_OUTPUT) of the WRITE and TRIG cases.
hc_set_mode ==
    /\ s_pc = "mode"
    /\ mode_defined(p1)
    /\ store(gpio_set_mode(gpio_map, p1, PI_OUTPUT), fsel_index(p1))
    /\ s_pc' = after_step(s_pc, cmd)
    /\ UNCHANGED <<s_fd, cmd, p1, p2, p3, level, status>>
    /\ UNCHANGED net_vars
    /\ UNCHANGED sent_vars
    /\ UNCHANGED <<peer_vars, client_vars, aux_vars>>
    /\ UNCHANGED <<answered, rd_off, frame_at>>

\* gpio_write(p1, p2) of the WRITE case.
hc_write ==
    /\ s_pc = "write"
    /\ write_defined(p1, p2)
    /\ store(gpio_write(gpio_map, p1, p2), write_index(p1, p2))
    /\ s_pc' = after_step(s_pc, cmd)
    /\ UNCHANGED <<s_fd, cmd, p1, p2, p3, level, status>>
    /\ UNCHANGED net_vars
    /\ UNCHANGED sent_vars
    /\ UNCHANGED <<peer_vars, client_vars, aux_vars>>
    /\ UNCHANGED <<answered, rd_off, frame_at>>

\* gpio_trig(p1, p2, level): the first register write.
hc_trig_first ==
    /\ s_pc = "edge1"
    /\ write_defined(p1, trig_first(level))
    /\ store(gpio_write(gpio_map, p1, trig_first(level)),
             write_index(p1, trig_first(level)))
    /\ s_pc' = after_step(s_pc, cmd)
    /\ UNCHANGED <<s_fd, cmd, p1, p2, p3, level, status>>
    /\ UNCHANGED net_vars
    /\ UNCHANGED sent_vars
    /\ UNCHANGED <<peer_vars, client_vars, aux_vars>>
    /\ UNCHANGED <<answered, rd_off, frame_at>>

\* gpio_trig: delay_us(pulse_us).
hc_trig_hold ==
    /\ s_pc = "hold"
    /\ hw_trace' = Append(hw_trace, Ev("hold", delay_us(p2), {}))
    /\ s_pc' = after_step(s_pc, cmd)
    /\ UNCHANGED <<s_fd, cmd, p1, p2, p3, level, status, gpio_map, pin_high>>
    /\ UNCHANGED net_vars
    /\ UNCHANGED sent_vars
    /\ UNCHANGED <<peer_vars, client_vars, aux_vars>>
    /\ UNCHANGED <<answered, rd_off, frame_at>>

\* gpio_trig: the second register write.
hc_trig_second ==
    /\ s_pc = "edge2"
    /\ write_defined(p1, trig_second(level))
    /\ store(gpio_write(gpio_map, p1, trig_second(level)),
             write_index(p1, trig_second(level)))
    /\ s_pc' = after_step(s_pc, cmd)
    /\ UNCHANGED <<s_fd, cmd, p1, p2, p3, level, status>>
    /\ UNCHANGED net_vars
    /\ UNCHANGED sent_vars
    /\ UNCHANGED <<peer_vars, client_vars, aux_vars>>
    /\ UNCHANGED <<answered, rd_off, frame_at>>

\* A register access outside the mapped block, or a shift by a negative
\* count: undefined behaviour.  The build either faults (SIGSEGV ends the
\* process) or goes on with the block as it was.
access_defined ==
    CASE s_pc = "mode" -> mode_defined(p1)
      [] s_pc = "write" -> write_defined(p1, p2)
      [] s_pc = "edge1" -> write_defined(p1, trig_first(level))
      [] s_pc = "edge2" -> write_defined(p1, trig_second(level))
      [] OTHER -> TRUE

hc_fault ==
    /\ ~access_defined
    /\ die("crashed")
    /\ UNCHANGED <<s_fd, cmd, p1, p2, p3, level, status, gpio_map, pin_high>>
    /\ UNCHANGED <<nconn, c2s, s2c, cli_open>>
    /\ UNCHANGED sent_vars
    /\ UNCHANGED <<peer_vars, client_vars, aux_vars>>
    /\ UNCHANGED hist_vars

hc_stray ==
    /\ ~access_defined
    /\ s_pc' = after_step(s_pc, cmd)
    /\ hw_trace' = Append(hw_trace, Ev("stray", 0, {}))
    /\ UNCHANGED <<s_fd, cmd, p1, p2, p3, level, status, gpio_map, pin_high>>
    /\ UNCHANGED net_vars
    /\ UNCHANGED sent_vars
    /\ UNCHANGED <<peer_vars, client_vars, aux_vars>>
    /\ UNCHANGED <<answered, rd_off, frame_at>>

\* memcpy(res_buf, &status, 4); send(client_fd, res_buf, 16, 0) to a peer
\* whose end is open.
hc_send ==
    /\ s_pc = "send"
    /\ cli_open[s_fd]
    /\ s2c' = [s2c EXCEPT ![s_fd] = @ \o EncodeStatus(status)]
    /\ hw_trace' = Append(hw_trace, Ev("send", status, {}))
    /\ answered' = Append(answered, <<cmd, status>>)
    /\ s_pc' = "recv"
    /\ UNCHANGED <<s_fd, cmd, p1, p2, p3, level, status, gpio_map, pin_high>>
    /\ UNCHANGED <<nconn, backlog, c2s, cli_open, srv_open>>
    /\ UNCHANGED sent_vars
    /\ UNCHANGED <<peer_vars, client_vars, aux_vars>>
    /\ UNCHANGED <<rd_off, frame_at>>

\* send to a peer that has closed: the bytes are dropped (the return value
\* is not looked at).
hc_send_lost ==
    /\ s_pc = "send"
    /\ ~cli_open[s_fd]
    /\ hw_trace' = Append(hw_trace, Ev("send", status, {}))
    /\ answered' = Append(answered, <<cmd, status>>)
    /\ s_pc' = "recv"
    /\ UNCHANGED <<s_fd, cmd, p1, p2, p3, level, status, gpio_map, pin_high>>
    /\ UNCHANGED net_vars
    /\ UNCHANGED sent_vars
    /\ UNCHANGED <<peer_vars, client_vars, aux_vars>>
    /\ UNCHANGED <<rd_off, frame_at>>

\* send to a connection the peer has reset: SIGPIPE, which the server
\* neither ignores nor handles (no signal(), no MSG_NOSIGNAL).
hc_send_sigpipe ==
    /\ s_pc = "send"
    /\ ~cli_open[s_fd]
    /\ hw_trace' = Append(hw_trace, Ev("send", status, {}))
    /\ answered' = Append(answered, <<cmd, status>>)
    /\ die("killed")
    /\ UNCHANGED <<s_fd, cmd, p1, p2, p3, level, status, gpio_map, pin_high>>
    /\ UNCHANGED <<nconn, c2s, s2c, cli_open>>
    /\ UNCHANGED sent_vars
    /\ UNCHANGED <<peer_vars, client_vars, aux_vars>>
    /\ UNCHANGED <<rd_off, frame_at>>

\* Mutant: the end of a connection puts the block back to its reset
\* content and the pins low.
hc_close_reset ==
    /\ s_pc = "close"
    /\ srv_open' = [srv_open EXCEPT ![s_fd] = FALSE]
    /\ s_fd' = 0
    /\ s_pc' = "accept"
    /\ gpio_map' = [i \in 0..5 |-> {}]
    /\ pin_high' = {}
    /\ UNCHANGED <<cmd, p1, p2, p3, level, status>>
    /\ UNCHANGED <<nconn, backlog, c2s, s2c, cli_open>>
    /\ UNCHANGED sent_vars
    /\ UNCHANGED <<peer_vars, client_vars, aux_vars>>
    /\ UNCHANGED hist_vars

\* close(client_fd); back to accept.
hc_close ==
    /\ s_pc = "close"
    /\ srv_open' = [srv_open EXCEPT ![s_fd] = FALSE]
    /\ s_fd' = 0
    /\ s_pc' = "accept"
    /\ UNCHANGED <<cmd, p1, p2, p3, level, status, gpio_map, pin_high>>
    /\ UNCHANGED <<nconn, backlog, c2s, s2c, cli_open>>
    /\ UNCHANGED sent_vars
    /\ UNCHANGED <<peer_vars, client_vars, aux_vars>>
    /\ UNCHANGED hist_vars

\* -------------------------------------------------- client: the frames
\* The arguments of sendCommand; p1, p2 and p3 default to 0.
getVersion_args == <<PI_CMD_PIGPV, 0, 0, 0>>
write_args(gpio, lvl) == <<PI_CMD_WRITE, gpio, lvl, 0>>
trig_args(gpio, pulseLength) == <<PI_CMD_TRIG, gpio, pulseLength, 0>>
setMode_args(gpio, mode) == <<PI_CMD_MODES, gpio, mode, 0>>

\* ------------------------------------------------------- PigpiodClient
\* No thread has faulted: the plugin's process runs.
ClientAlive == \A u \in Threads : th[u].pc # "dead"

isConnected == socket > 0

\* The server's end of a connection is gone: closed, or its process ended.
SrvGone(c) == ~srv_open[c] /\ \A i \in 1..Len(backlog) : backlog[i] # c

\* connectToPigpiod after pigpiod.connect returned true: getVersion,
\* setMode (gpio, PI_OUTPUT), write (gpio, PI_LOW).
connect_plan ==
    <<Api("getVersion", 0, 0), Api("setMode", gpio_pin, PI_OUTPUT),
      Api("write", gpio_pin, PI_LOW)>>

\* The thread after a method of PigpiodClient returned v: the caller goes
\* on to its next call, or is done.  The plugin's handlers drop what the
\* client returned; a direct caller has it (api, a, b, ret stay).
after_call(r, v) ==
    LET rest == IF r.op = "connectToPigpiod" /\ r.api = "connect"
                THEN (IF v = 1 THEN connect_plan ELSE <<>>)
                ELSE r.plan
        out == [r EXCEPT !.ret = v, !.cmd = 0, !.p1 = 0, !.p2 = 0,
                         !.totalReceived = 0, !.attempts = 0, !.resBuf = <<>>,
                         !.fd = 0, !.req = 0, !.from = 0, !.ones = TRUE]
    IN IF rest = <<>>
       THEN (IF r.op = "call"
             THEN [out EXCEPT !.pc = "idle", !.op = "none", !.plan = <<>>]
             ELSE IdleThread)
       ELSE [out EXCEPT !.pc = "api", !.api = Head(rest).api,
                        !.a = Head(rest).a, !.b = Head(rest).b,
                        !.plan = Tail(rest)]

\* The plugin's flag after the call returned: connectToPigpiod sets it
\* after getVersion and clears it when connect failed,
\* disconnectFromPigpiod clears it after disconnect.
connected_after(r, v) ==
    IF r.op = "connectToPigpiod" /\ r.api = "connect" /\ v = 0 THEN FALSE
    ELSE IF r.op = "connectToPigpiod" /\ r.api = "getVersion" THEN TRUE
    ELSE IF r.op = "disconnectFromPigpiod" /\ r.api = "disconnect" THEN FALSE
    ELSE connected

api_return(t, r, v) ==
    /\ th' = [th EXCEPT ![t] = after_call(r, v)]
    /\ connected' = connected_after(r, v)

\* return from sendCommand: into connect's check of the version, or out of
\* getVersion, setMode, write, trig, which return what it returned.
sc_return(t, r, v) ==
    IF r.api = "connect"
    THEN /\ th' = [th EXCEPT ![t] = [r EXCEPT !.pc = "conn_chk", !.ret = v]]
         /\ UNCHANGED connected
    ELSE api_return(t, r, v)

\* Mutant: sendCommand without the isConnected check.
sendCommand_unchecked(t, r, args) ==
    /\ th' = [th EXCEPT ![t] = [r EXCEPT !.pc = "sc_write",
                    !.cmd = args[1], !.p1 = args[2], !.p2 = args[3]]]
    /\ UNCHANGED <<lastError, connected>>

\* sendCommand up to the write: the isConnected check, the frame.
sendCommand(t, r, args) ==
    IF ~isConnected
    THEN /\ lastError' = "Not connected to pigpiod"
         /\ sc_return(t, r, PI_NOT_CONNECTED)
    ELSE /\ th' = [th EXCEPT ![t] = [r EXCEPT !.pc = "sc_write",
                       !.cmd = args[1], !.p1 = args[2], !.p2 = args[3]]]
         /\ UNCHANGED <<lastError, connected>>

\* socket->close() of the connection c (none when c <= 0).
closed_end(f, c, v) == IF c > 0 THEN [f EXCEPT ![c] = v] ELSE f

getVersion(t) ==
    /\ ClientAlive
    /\ th[t].pc = "api" /\ th[t].api = "getVersion"
    /\ sendCommand(t, th[t], getVersion_args)
    /\ UNCHANGED <<socket, recv_len, gateIsOpen, gpio_pin, gate_line, n_ops>>
    /\ UNCHANGED <<srv_vars, net_vars, sent_vars, peer_vars, hist_vars, aux_vars>>

setMode(t) ==
    /\ ClientAlive
    /\ th[t].pc = "api" /\ th[t].api = "setMode"
    /\ IF th[t].a < 0 \/ th[t].a > MaxGpio
       THEN /\ lastError' = "Invalid GPIO number"
            /\ api_return(t, th[t], PI_BAD_GPIO)
       ELSE sendCommand(t, th[t], setMode_args(th[t].a, th[t].b))
    /\ UNCHANGED <<socket, recv_len, gateIsOpen, gpio_pin, gate_line, n_ops>>
    /\ UNCHANGED <<srv_vars, net_vars, sent_vars, peer_vars, hist_vars, aux_vars>>

write(t) ==
    /\ ClientAlive
    /\ th[t].pc = "api" /\ th[t].api = "write"
    /\ IF th[t].a < 0 \/ th[t].a > MaxGpio
       THEN /\ lastError' = "Invalid GPIO number"
            /\ api_return(t, th[t], PI_BAD_GPIO)
       ELSE sendCommand(t, th[t], write_args(th[t].a, th[t].b))
    /\ UNCHANGED <<socket, recv_len, gateIsOpen, gpio_pin, gate_line, n_ops>>
    /\ UNCHANGED <<srv_vars, net_vars, sent_vars, peer_vars, hist_vars, aux_vars>>

\* Mutant: trig without the check of pulseLength.
trig_unchecked(t) ==
    /\ ClientAlive
    /\ th[t].pc = "api" /\ th[t].api = "trig"
    /\ IF th[t].a < 0 \/ th[t].a > MaxGpio
       THEN /\ lastError' = "Invalid GPIO number"
            /\ api_return(t, th[t], PI_BAD_GPIO)
       ELSE sendCommand(t, th[t], trig_args(th[t].a, th[t].b))
    /\ UNCHANGED <<socket, recv_len, gateIsOpen, gpio_pin, gate_line, n_ops>>
    /\ UNCHANGED <<srv_vars, net_vars, sent_vars, peer_vars, hist_vars, aux_vars>>

trig(t) ==
    /\ ClientAlive
    /\ th[t].pc = "api" /\ th[t].api = "trig"
    /\ IF th[t].a < 0 \/ th[t].a > MaxGpio
       THEN /\ lastError' = "Invalid GPIO number"
            /\ api_return(t, th[t], PI_BAD_GPIO)
       ELSE IF th[t].b < 1 \/ th[t].b > 100
       THEN /\ lastError' = "Invalid pulse length"
            /\ api_return(t, th[t], PI_BAD_GPIO)
       ELSE sendCommand(t, th[t], trig_args(th[t].a, th[t].b))
    /\ UNCHANGED <<socket, recv_len, gateIsOpen, gpio_pin, gate_line, n_ops>>
    /\ UNCHANGED <<srv_vars, net_vars, sent_vars, peer_vars, hist_vars, aux_vars>>

\* Mutant: disconnect() that closes the socket and keeps the pointer.
disconnect_keeps(t) ==
    /\ ClientAlive
    /\ th[t].pc = "api" /\ th[t].api = "disconnect"
    /\ cli_open' = closed_end(cli_open, socket, FALSE)
    /\ s2c' = closed_end(s2c, socket, <<>>)
    /\ lastError' = ""
    /\ api_return(t, th[t], 0)
    /\ UNCHANGED <<socket, recv_len, gateIsOpen, gpio_pin, gate_line, n_ops>>
    /\ UNCHANGED <<nconn, backlog, c2s, srv_open>>
    /\ UNCHANGED <<srv_vars, sent_vars, peer_vars, hist_vars, aux_vars>>

\* disconnect(): close and release the socket, clear lastError.
disconnect(t) ==
    /\ ClientAlive
    /\ th[t].pc = "api" /\ th[t].api = "disconnect"
    /\ cli_open' = closed_end(cli_open, socket, FALSE)
    /\ s2c' = closed_end(s2c, socket, <<>>)
    /\ socket' = 0
    /\ lastError' = ""
    /\ api_return(t, th[t], 0)
    /\ UNCHANGED <<recv_len, gateIsOpen, gpio_pin, gate_line, n_ops>>
    /\ UNCHANGED <<nconn, backlog, c2s, srv_open>>
    /\ UNCHANGED <<srv_vars, sent_vars, peer_vars, hist_vars, aux_vars>>

\* connect() up to socket->connect: disconnect(), a new socket.
connect(t) ==
    /\ ClientAlive
    /\ th[t].pc = "api" /\ th[t].api = "connect"
    /\ cli_open' = closed_end(cli_open, socket, FALSE)
    /\ s2c' = closed_end(s2c, socket, <<>>)
    /\ socket' = -1
    /\ lastError' = ""
    /\ th' = [th EXCEPT ![t].pc = "conn_tcp"]
    /\ UNCHANGED <<recv_len, connected, gateIsOpen, gpio_pin, gate_line, n_ops>>
    /\ UNCHANGED <<nconn, backlog, c2s, srv_open>>
    /\ UNCHANGED <<srv_vars, sent_vars, peer_vars, hist_vars, aux_vars>>

\* socket->connect returned true (the handshake completes in the server's
\* backlog); lastError = ""; getVersion() up to the write.
connect_tcp(t) ==
    /\ ClientAlive
    /\ th[t].pc = "conn_tcp"
    /\ Alive
    /\ nconn < MaxConns
    /\ nconn' = nconn + 1
    /\ socket' = nconn + 1
    /\ backlog' = Append(backlog, nconn + 1)
    /\ cli_open' = [cli_open EXCEPT ![nconn + 1] = TRUE]
    /\ lastError' = ""
    /\ th' = [th EXCEPT ![t] = [@ EXCEPT !.pc = "sc_write",
                  !.cmd = getVersion_args[1], !.p1 = getVersion_args[2],
                  !.p2 = getVersion_args[3]]]
    /\ UNCHANGED <<recv_len, connected, gateIsOpen, gpio_pin, gate_line, n_ops>>
    /\ UNCHANGED <<c2s, s2c, srv_open>>
    /\ UNCHANGED <<srv_vars, sent_vars, peer_vars, hist_vars, aux_vars>>

\* socket->connect returned false: nothing listens.
connect_refused(t) ==
    /\ ClientAlive
    /\ th[t].pc = "conn_tcp"
    /\ ~Alive
    /\ lastError' = "Failed to connect"
    /\ socket' = 0
    /\ api_return(t, th[t], 0)
    /\ UNCHANGED <<recv_len, gateIsOpen, gpio_pin, gate_line, n_ops>>
    /\ UNCHANGED <<srv_vars, net_vars, sent_vars, peer_vars, hist_vars, aux_vars>>

\* Mutant: connect() returns true whatever getVersion returned.
connect_verify_any(t) ==
    /\ ClientAlive
    /\ th[t].pc = "conn_chk"
    /\ api_return(t, th[t], 1)
    /\ UNCHANGED <<socket, lastError, cli_open, s2c>>
    /\ UNCHANGED <<recv_len, gateIsOpen, gpio_pin, gate_line, n_ops>>
    /\ UNCHANGED <<nconn, backlog, c2s, srv_open>>
    /\ UNCHANGED <<srv_vars, sent_vars, peer_vars, hist_vars, aux_vars>>

\* connect() after getVersion returned: true when version > 0; otherwise
\* lastError is set, disconnect() closes the socket and clears lastError
\* again, false.
connect_verify(t) ==
    /\ ClientAlive
    /\ th[t].pc = "conn_chk"
    /\ IF th[t].ret > 0
       THEN /\ api_return(t, th[t], 1)
            /\ UNCHANGED <<socket, lastError, cli_open, s2c>>
       ELSE /\ cli_open' = closed_end(cli_open, socket, FALSE)
            /\ s2c' = closed_end(s2c, socket, <<>>)
            /\ socket' = 0
            /\ lastError' = ""
            /\ api_return(t, th[t], 0)
    /\ UNCHANGED <<recv_len, gateIsOpen, gpio_pin, gate_line, n_ops>>
    /\ UNCHANGED <<nconn, backlog, c2s, srv_open>>
    /\ UNCHANGED <<srv_vars, sent_vars, peer_vars, hist_vars, aux_vars>>

\* sent = socket->write (cmdBuf, 16) returned 16.  To a connection whose
\* far end is gone the bytes go nowhere.
sc_write(t) ==
    /\ ClientAlive
    /\ th[t].pc = "sc_write"
    /\ socket > 0
    /\ LET r == th[t]
           f == EncodeFrame(r.cmd, r.p1, r.p2, 0)
       IN /\ c2s' = IF SrvGone(socket) THEN c2s
                    ELSE [c2s EXCEPT ![socket] = @ \o f]
          /\ sent_at' = [sent_at EXCEPT ![socket] = @ \cup {sent_len[socket]}]
          /\ sent_len' = [sent_len EXCEPT ![socket] = @ + FrameLen]
          /\ th' = [th EXCEPT ![t] = [r EXCEPT !.pc = "sc_read",
                        !.fd = socket,
                        !.req = sent_len[socket] \div FrameLen + 1,
                        !.totalReceived = 0, !.attempts = 0, !.resBuf = <<>>,
                        !.ones = TRUE]]
    /\ UNCHANGED <<socket, lastError, recv_len, connected, gateIsOpen,
                   gpio_pin, gate_line, n_ops>>
    /\ UNCHANGED <<nconn, backlog, s2c, cli_open, srv_open, ext_sent>>
    /\ UNCHANGED <<srv_vars, peer_vars, hist_vars, aux_vars>>

\* sent != 16: the far end is gone, or the socket is one another thread
\* has just made and not connected.
sc_write_failed(t) ==
    /\ ClientAlive
    /\ th[t].pc = "sc_write"
    /\ socket = -1 \/ (socket > 0 /\ SrvGone(socket))
    /\ lastError' = "Failed to send command"
    /\ sc_return(t, th[t], PI_SOCKET_ERROR)
    /\ UNCHANGED <<socket, recv_len, gateIsOpen, gpio_pin, gate_line, n_ops>>
    /\ UNCHANGED <<srv_vars, net_vars, sent_vars, peer_vars, hist_vars, aux_vars>>

\* Mutant: the read loop without its attempt budget.
reading_unbounded(r) == r.pc = "sc_read" /\ r.totalReceived < FrameLen

\* Mutant: the read loop with a budget of 10 attempts.
reading_short(r) ==
    r.pc = "sc_read" /\ r.totalReceived < FrameLen /\ r.attempts < 10

\* The condition of the read loop.
reading(r) ==
    r.pc = "sc_read" /\ r.totalReceived < FrameLen /\ r.attempts < maxAttempts

\* received = socket->read (resBuf + totalReceived, 16 - totalReceived,
\* true) returned received > 0: all the bytes asked for, or the bytes that
\* were there when the read was cut short.
sc_read(t) ==
    /\ ClientAlive
    /\ reading(th[t])
    /\ socket > 0
    /\ s2c[socket] # <<>>
    /\ LET r == th[t]
           want == FrameLen - r.totalReceived
           received == IF Len(s2c[socket]) >= want THEN want
                       ELSE Len(s2c[socket])
       IN /\ s2c' = [s2c EXCEPT ![socket] = Drop(@, received)]
          /\ recv_len' = [recv_len EXCEPT ![socket] = @ + received]
          /\ th' = [th EXCEPT ![t] = [r EXCEPT
                        !.resBuf = @ \o Take(s2c[socket], received),
                        !.totalReceived = @ + received,
                        !.attempts = @ + 1,
                        !.ones = @ /\ received = 1,
                        !.from = IF r.totalReceived = 0
                                 THEN recv_len[socket] ELSE @]]
    /\ UNCHANGED <<socket, lastError, connected, gateIsOpen, gpio_pin,
                   gate_line, n_ops>>
    /\ UNCHANGED <<nconn, backlog, c2s, cli_open, srv_open>>
    /\ UNCHANGED <<srv_vars, sent_vars, peer_vars, hist_vars, aux_vars>>

\* received < 0 with no byte there: recv failed (the call was interrupted,
\* the far end is gone), the socket is not connected, or another thread
\* holds the socket's read lock.  The socket stays as it is.
sc_read_error(t) ==
    /\ ClientAlive
    /\ reading(th[t])
    /\ socket = -1 \/ (socket > 0 /\ s2c[socket] = <<>>)
    /\ lastError' = "Socket read error"
    /\ sc_return(t, th[t], PI_SOCKET_ERROR)
    /\ UNCHANGED <<socket, recv_len, gateIsOpen, gpio_pin, gate_line, n_ops>>
    /\ UNCHANGED <<srv_vars, net_vars, sent_vars, peer_vars, hist_vars, aux_vars>>

\* received == 0: neither branch of the loop body, attempts++.
sc_read_zero(t) ==
    /\ ClientAlive
    /\ reading(th[t])
    /\ socket > 0
    /\ th' = [th EXCEPT ![t].attempts = @ + 1, ![t].ones = FALSE]
    /\ UNCHANGED <<socket, lastError, recv_len, connected, gateIsOpen,
                   gpio_pin, gate_line, n_ops>>
    /\ UNCHANGED <<srv_vars, net_vars, sent_vars, peer_vars, hist_vars, aux_vars>>

\* Mutant: the status is decoded as soon as its 4 bytes are in resBuf.
sc_decode_partial(t) ==
    /\ ClientAlive
    /\ th[t].pc = "sc_read"
    /\ th[t].totalReceived >= 4 \/ ~reading(th[t])
    /\ IF th[t].totalReceived < 4
       THEN /\ lastError' = "Incomplete response from pigpiod"
            /\ sc_return(t, th[t], PI_SOCKET_ERROR)
       ELSE /\ sc_return(t, th[t], DecodeU32(SubSeq(th[t].resBuf, 1, 4)))
            /\ UNCHANGED lastError
    /\ UNCHANGED <<socket, recv_len, gateIsOpen, gpio_pin, gate_line, n_ops>>
    /\ UNCHANGED <<srv_vars, net_vars, sent_vars, peer_vars, hist_vars, aux_vars>>

\* Mutant: for TRIG sendCommand returns 0 once the frame is written,
\* without a read.
sc_decode_nowait(t) ==
    /\ ClientAlive
    /\ th[t].pc = "sc_read"
    /\ th[t].cmd = PI_CMD_TRIG \/ ~reading(th[t])
    /\ IF th[t].cmd = PI_CMD_TRIG
       THEN /\ sc_return(t, th[t], 0)
            /\ UNCHANGED lastError
       ELSE IF th[t].totalReceived # FrameLen
       THEN /\ lastError' = "Incomplete response from pigpiod"
            /\ sc_return(t, th[t], PI_SOCKET_ERROR)
       ELSE /\ sc_return(t, th[t], DecodeU32(SubSeq(th[t].resBuf, 1, 4)))
            /\ UNCHANGED lastError
    /\ UNCHANGED <<socket, recv_len, gateIsOpen, gpio_pin, gate_line, n_ops>>
    /\ UNCHANGED <<srv_vars, net_vars, sent_vars, peer_vars, hist_vars, aux_vars>>

\* After the loop: incomplete, or the status of the first 4 bytes.
sc_decode(t) ==
    /\ ClientAlive
    /\ th[t].pc = "sc_read" /\ ~reading(th[t])
    /\ IF th[t].totalReceived # FrameLen
       THEN /\ lastError' = "Incomplete response from pigpiod"
            /\ sc_return(t, th[t], PI_SOCKET_ERROR)
       ELSE /\ sc_return(t, th[t], DecodeU32(SubSeq(th[t].resBuf, 1, 4)))
            /\ UNCHANGED lastError
    /\ UNCHANGED <<socket, recv_len, gateIsOpen, gpio_pin, gate_line, n_ops>>
    /\ UNCHANGED <<srv_vars, net_vars, sent_vars, peer_vars, hist_vars, aux_vars>>

\* socket->write or socket->read through the pointer another thread has
\* reset: the process faults.
sc_released(t) ==
    /\ ClientAlive
    /\ th[t].pc = "sc_write" \/ reading(th[t])
    /\ socket = 0
    /\ th' = [th EXCEPT ![t].pc = "dead"]
    /\ UNCHANGED <<socket, lastError, recv_len, connected, gateIsOpen,
                   gpio_pin, gate_line, n_ops>>
    /\ UNCHANGED <<srv_vars, net_vars, sent_vars, peer_vars, hist_vars, aux_vars>>

\* One step of a thread inside PigpiodClient.
client_step(t) ==
    \/ getVersion(t)
    \/ setMode(t)
    \/ write(t)
    \/ trig(t)
    \/ disconnect(t)
    \/ connect(t)
    \/ connect_tcp(t)
    \/ connect_refused(t)
    \/ connect_verify(t)
    \/ sc_write(t)
    \/ sc_write_failed(t)
    \/ sc_read(t)
    \/ sc_read_error(t)
    \/ sc_decode(t)

\* ------------------------------------------------ callers of the client
\* A thread calls into the plugin or the client: the calls it will make.
begin(t, op, plan) ==
    /\ ClientAlive
    /\ th[t].pc = "idle"
    /\ n_ops < MaxOps
    /\ n_ops' = n_ops + 1
    /\ th' = [th EXCEPT ![t] =
                IF plan = <<>> THEN [@ EXCEPT !.op = "none"]
                ELSE [@ EXCEPT !.pc = "api", !.op = op,
                               !.api = Head(plan).api, !.a = Head(plan).a,
                               !.b = Head(plan).b, !.plan = Tail(plan)]]

\* The calls a collaborator makes on a PigpiodClient of its own: valid and
\* invalid pins and pulse lengths.
ApiCalls ==
    {Api("connect", 0, 0), Api("disconnect", 0, 0), Api("getVersion", 0, 0),
     Api("setMode", 17, PI_OUTPUT), Api("write", 17, 1), Api("write", 54, 1),
     Api("trig", 17, 50), Api("trig", 17, 101),
     Api("setMode", -1, PI_OUTPUT), Api("trig", 17, 0)}

call(c) ==
    /\ begin("msg", "call", <<c>>)
    /\ c.api = "connect" => nconn < MaxConns
    /\ UNCHANGED <<socket, lastError, recv_len, connected, gateIsOpen,
                   gpio_pin, gate_line>>
    /\ UNCHANGED <<srv_vars, net_vars, sent_vars, peer_vars, hist_vars, aux_vars>>

\* ------------------------------------------------------- PigpiodOutput
isConnectedToPigpiod == connected /\ isConnected

connectToPigpiod_plan == <<Api("connect", 0, 0)>>

disconnectFromPigpiod_plan ==
    IF connected
    THEN <<Api("write", gpio_pin, PI_LOW), Api("disconnect", 0, 0)>>
    ELSE <<>>

\* The editor's button: disconnectFromPigpiod when isConnectedToPigpiod,
\* connectToPigpiod otherwise.
buttonClicked ==
    /\ IF isConnectedToPigpiod
       THEN begin("msg", "disconnectFromPigpiod", disconnectFromPigpiod_plan)
       ELSE /\ nconn < MaxConns
            /\ begin("msg", "connectToPigpiod", connectToPigpiod_plan)
    /\ UNCHANGED <<socket, lastError, recv_len, connected, gateIsOpen,
                   gpio_pin, gate_line>>
    /\ UNCHANGED <<srv_vars, net_vars, sent_vars, peer_vars, hist_vars, aux_vars>>

stopAcquisition ==
    /\ begin("msg", "stopAcquisition",
             IF connected THEN <<Api("write", gpio_pin, PI_LOW)>> ELSE <<>>)
    /\ UNCHANGED <<socket, lastError, recv_len, connected, gateIsOpen,
                   gpio_pin, gate_line>>
    /\ UNCHANGED <<srv_vars, net_vars, sent_vars, peer_vars, hist_vars, aux_vars>>

\* The values the parameters are changed to.
GpioPins == {27}
GateLines == {0, 2}

\* parameterValueChanged of gate_line.
gate_line_changed(v) ==
    /\ begin("msg", "parameterValueChanged", <<>>)
    /\ gate_line' = v
    /\ gateIsOpen' = (v = 0)
    /\ gate_ev' = [gate_ev EXCEPT !.gate = "none"]
    /\ UNCHANGED <<socket, lastError, recv_len, connected, gpio_pin>>
    /\ UNCHANGED <<srv_vars, net_vars, sent_vars, peer_vars, hist_vars>>
    /\ UNCHANGED <<boot, tst>>

\* parameterValueChanged of gpio_pin.
gpio_pin_changed(g) ==
    /\ begin("msg", "parameterValueChanged",
             IF connected
             THEN <<Api("setMode", g, PI_OUTPUT), Api("write", g, PI_LOW)>>
             ELSE <<>>)
    /\ gpio_pin' = g
    /\ UNCHANGED <<socket, lastError, recv_len, connected, gateIsOpen, gate_line>>
    /\ UNCHANGED <<srv_vars, net_vars, sent_vars, peer_vars, hist_vars, aux_vars>>

\* The lines and states of the TTL events.
EventBits == {1, 2}

\* gateIsOpen after the gate handling of handleTTLEvent.
gate_after(eventBit, state) ==
    IF eventBit = gate_line THEN state ELSE gateIsOpen

handleTTLEvent(eventBit, state) ==
    /\ begin("audio", "handleTTLEvent",
             IF /\ connected
                /\ gate_after(eventBit, state)
                /\ eventBit = input_line
                /\ state
             THEN <<Api("trig", gpio_pin, pulse_duration)>>
             ELSE <<>>)
    /\ gateIsOpen' = IF connected THEN gate_after(eventBit, state) ELSE gateIsOpen
    /\ gate_ev' = [gate |-> IF eventBit # gate_line THEN gate_ev.gate
                            ELSE IF state THEN "rise" ELSE "fall",
                   last |-> <<eventBit, state>>]
    /\ UNCHANGED <<socket, lastError, recv_len, connected, gpio_pin, gate_line>>
    /\ UNCHANGED <<srv_vars, net_vars, sent_vars, peer_vars, hist_vars>>
    /\ UNCHANGED <<boot, tst>>


\* ------------------------------------------------------------ raw peer
\* The frames a peer sends: every command of the protocol, an unknown one,
\* pins inside and outside 0..53 and outside the block, TRIG with and
\* without an extension and with an extension length the server ignores.
PeerFrames ==
    {<<PI_CMD_WRITE, 17, 1, 0>>, <<PI_CMD_WRITE, 53, 0, 0>>,
     <<PI_CMD_WRITE, 2147483647, 1, 0>>}
    \cup {trig_args(17, 50)}
    \cup {<<PI_CMD_TRIG, 17, 50, e>> : e \in {4, 8}}
    \cup {<<PI_CMD_PIGPV, 0, 0, 0>>, <<999, 17, 1, 0>>}

\* The u32 levels a peer sends as the extension.
PeerLevels == {0, 256}

\* connect(): the TCP handshake completes in the listen backlog.
PeerConnect ==
    /\ peer_fd = 0
    /\ Alive
    /\ nconn < MaxConns
    /\ nconn' = nconn + 1
    /\ peer_fd' = nconn + 1
    /\ backlog' = Append(backlog, nconn + 1)
    /\ cli_open' = [cli_open EXCEPT ![nconn + 1] = TRUE]
    /\ peer_owed' = 0
    /\ UNCHANGED <<peer_n, c2s, s2c, srv_open>>
    /\ UNCHANGED sent_vars
    /\ UNCHANGED srv_vars
    /\ UNCHANGED hist_vars
    /\ UNCHANGED <<client_vars, aux_vars>>

PeerSend(f) ==
    /\ peer_fd # 0
    /\ Alive
    /\ peer_owed = 0
    /\ peer_n < MaxFrames
    /\ c2s' = [c2s EXCEPT ![peer_fd] = @ \o EncodeFrame(f[1], f[2], f[3], f[4])]
    /\ peer_owed' = IF f[1] = PI_CMD_TRIG THEN f[4] ELSE 0
    /\ peer_n' = peer_n + 1
    /\ sent_at' = [sent_at EXCEPT ![peer_fd] = @ \cup {sent_len[peer_fd]}]
    /\ sent_len' = [sent_len EXCEPT ![peer_fd] = @ + FrameLen]
    /\ UNCHANGED <<peer_fd, ext_sent>>
    /\ UNCHANGED <<nconn, backlog, s2c, cli_open, srv_open>>
    /\ UNCHANGED srv_vars
    /\ UNCHANGED hist_vars
    /\ UNCHANGED <<client_vars, aux_vars>>

\* The extension the last frame declared: the level, then zero bytes up to
\* the declared length.
PeerSendExt(l) ==
    /\ peer_fd # 0
    /\ peer_owed > 0
    /\ c2s' = [c2s EXCEPT ![peer_fd] =
                 @ \o [i \in 1..peer_owed |-> IF i <= 4 THEN LE32(l)[i] ELSE 0]]
    /\ ext_sent' = [ext_sent EXCEPT ![peer_fd] = @ \cup {<<sent_len[peer_fd], l>>}]
    /\ sent_len' = [sent_len EXCEPT ![peer_fd] = @ + peer_owed]
    /\ peer_owed' = 0
    /\ UNCHANGED <<peer_fd, peer_n, sent_at>>
    /\ UNCHANGED <<nconn, backlog, s2c, cli_open, srv_open>>
    /\ UNCHANGED srv_vars
    /\ UNCHANGED hist_vars
    /\ UNCHANGED <<client_vars, aux_vars>>

\* close(): the responses it has not read are discarded.
PeerClose ==
    /\ peer_fd # 0
    /\ cli_open' = [cli_open EXCEPT ![peer_fd] = FALSE]
    /\ s2c' = [s2c EXCEPT ![peer_fd] = <<>>]
    /\ peer_fd' = 0
    /\ UNCHANGED <<peer_owed, peer_n>>
    /\ UNCHANGED <<nconn, backlog, c2s, srv_open>>
    /\ UNCHANGED sent_vars
    /\ UNCHANGED srv_vars
    /\ UNCHANGED hist_vars
    /\ UNCHANGED <<client_vars, aux_vars>>

\* ------------------------------------- the register driver on its own
\* gpio_set_mode and gpio_write called on a register block of plain
\* memory (gpio_map pointing at a test double), the chip's latch following
\* the stores.
\* Prior contents of the function-select words.
Contents ==
    {{}, AllBits, {b \in AllBits : b % 2 = 0}, {b \in AllBits : b % 2 = 1}}
\* The modes asked for: INPUT, OUTPUT, ALT0.
Modes == {0, PI_OUTPUT, 4}
\* The writes <<pin, level>> the block has seen before the call under test.
EarlierWrites == {<<18, 1>>, <<18, 0>>, <<49, 1>>}
EarlierSeqs == UNION {[1..n -> EarlierWrites] : n \in 0..MaxEarlier}

\* The block and the pins driven high, <<map, high>>, after gpio_write.
write_step(st, c) ==
    LET m == gpio_write(st[1], c[1], c[2])
    IN <<m, hw_after(st[2], write_index(c[1], c[2]),
                     Word(m, write_index(c[1], c[2])))>>

RECURSIVE after_writes(_, _)
after_writes(st, es) ==
    IF es = <<>> THEN st ELSE after_writes(write_step(st, Head(es)), Tail(es))

\* A block whose function-select words hold any content, whose set and
\* clear words start at zero and have seen the earlier writes.
InitDriver ==
    /\ s_pc = "test"
    /\ s_fd = 0
    /\ cmd = 0 /\ p1 = 0 /\ p2 = 0 /\ p3 = 0
    /\ level = 1
    /\ status = 0
    /\ InitNet /\ InitPeer /\ InitHist /\ InitClient
    /\ boot = Booted
    /\ gate_ev = NoEvent
    /\ \E f \in Contents, es \in EarlierSeqs :
          LET st == after_writes(<<[i \in 0..5 |-> f], {}>>, es)
          IN /\ gpio_map = st[1]
             /\ pin_high = st[2]
             /\ tst = [fn |-> "ready", earlier |-> es]

\* The call under test; before and high are the block and the pins driven
\* high when it was made.
called(fn, gpio, arg, map2, idx) ==
    /\ tst.fn = "ready"
    /\ tst' = [fn |-> fn, gpio |-> gpio, arg |-> arg, earlier |-> tst.earlier,
               before |-> gpio_map, high |-> pin_high]
    /\ gpio_map' = map2
    /\ pin_high' = hw_after(pin_high, idx, Word(map2, idx))
    /\ UNCHANGED <<s_pc, s_fd, cmd, p1, p2, p3, level, status>>
    /\ UNCHANGED <<net_vars, sent_vars, peer_vars, hist_vars, client_vars>>
    /\ UNCHANGED <<boot, gate_ev>>

drv_set_mode(gpio, mode) ==
    /\ mode_defined(gpio)
    /\ called("gpio_set_mode", gpio, mode,
              gpio_set_mode(gpio_map, gpio, mode), fsel_index(gpio))

drv_write(gpio, lvl) ==
    /\ write_defined(gpio, lvl)
    /\ called("gpio_write", gpio, lvl,
              gpio_write(gpio_map, gpio, lvl), write_index(gpio, lvl))

NextDriver ==
    \/ \E g \in Pins, m \in Modes : drv_set_mode(g, m)
    \/ \E g \in Pins, l \in {0, 1} : drv_write(g, l)

SpecDriver == InitDriver /\ [][NextDriver]_vars

\* ------------------------------------------ the frame codec on its own
\* A uint32_t value as its 16-bit halves <<high, low>>, and the word that
\* carries it: the integer with the same bit pattern.
Carried(h) == (IF h[1] >= 32768 THEN h[1] - 65536 ELSE h[1]) * 65536 + h[2]
Halves(x) == <<(x \div 65536) % 65536, x % 65536>>

\* cmd, p1, p2, p3 of handle_client: the four words of cmd_buf.
DecodeFrame(b) ==
    <<DecodeU32(SubSeq(b, 1, 4)), DecodeU32(SubSeq(b, 5, 8)),
      DecodeU32(SubSeq(b, 9, 12)), DecodeU32(SubSeq(b, 13, 16))>>

\* The uint32_t values put in a frame and the int32_t values put in a
\* response: the ends of both ranges, small values, a value per byte.
Words32 ==
    {<<0, 0>>, <<0, 1>>, <<0, 37>>, <<0, 256>>, <<1, 0>>, <<32767, 65535>>,
     <<32768, 0>>, <<65535, 65535>>}
Statuses == {0, 79, -1, -3, 2147483647, -2147483647 - 1}

\* The words of a frame before sendCommand encodes them, or a status
\* before handle_client encodes it.
InitCodec ==
    /\ s_pc = "test"
    /\ s_fd = 0
    /\ cmd = 0 /\ p1 = 0 /\ p2 = 0 /\ p3 = 0
    /\ level = 1
    /\ status = 0
    /\ gpio_map = [i \in 0..5 |-> {}]
    /\ pin_high = {}
    /\ InitNet /\ InitPeer /\ InitHist /\ InitClient
    /\ boot = Booted
    /\ gate_ev = NoEvent
    /\ \/ \E c, a, b, e \in Words32 :
             tst = [fn |-> "frame", at |-> "in", in |-> <<c, a, b, e>>]
       \/ \E st \in Statuses :
             tst = [fn |-> "status", at |-> "in", in |-> st]

\* A step of the codec: only the value under test moves.
codec(fn, from, t2) ==
    /\ tst.fn = fn /\ tst.at = from
    /\ tst' = t2
    /\ UNCHANGED <<srv_vars, net_vars, sent_vars, peer_vars, hist_vars,
                   client_vars, boot, gate_ev>>

\* sendCommand: the four memcpy into cmdBuf.
enc_frame ==
    /\ tst.fn = "frame"
    /\ codec("frame", "in",
             [fn |-> "frame", at |-> "wire", in |-> tst.in,
              wire |-> EncodeFrame(Carried(tst.in[1]), Carried(tst.in[2]),
                                   Carried(tst.in[3]), Carried(tst.in[4]))])

\* handle_client: the four memcpy out of cmd_buf.
dec_frame ==
    /\ tst.fn = "frame"
    /\ codec("frame", "wire",
             [fn |-> "frame", at |-> "out", in |-> tst.in, wire |-> tst.wire,
              out |-> DecodeFrame(tst.wire)])

\* handle_client: res_buf[16] = {0}; memcpy(res_buf, &status, 4).
enc_status ==
    /\ tst.fn = "status"
    /\ codec("status", "in",
             [fn |-> "status", at |-> "wire", in |-> tst.in,
              wire |-> EncodeStatus(tst.in)])

\* sendCommand: memcpy(&status, resBuf, 4).
dec_status ==
    /\ tst.fn = "status"
    /\ codec("status", "wire",
             [fn |-> "status", at |-> "out", in |-> tst.in, wire |-> tst.wire,
              out |-> DecodeU32(SubSeq(tst.wire, 1, 4))])

NextCodec == enc_frame \/ dec_frame \/ enc_status \/ dec_status

SpecCodec == InitCodec /\ [][NextCodec]_vars

\* ------------------------------------------------------------- claims
LastEv == hw_trace[Len(hw_trace)]
\* The response to the last frame read has been sent, and no frame has
\* been read since.
Responded == hw_trace # <<>> /\ LastEv[1] = "send"
\* The offset at which the last frame read started.
FrameOff == frame_at[Len(frame_at)]
\* The 3 bits of the function-select field of a pin.
Field(gpio) == {3 * (gpio % 10), 3 * (gpio % 10) + 1, 3 * (gpio % 10) + 2}
\* The kinds of the events of a trace, an access that strayed outside the
\* block counted as the store it was meant to be.
Kinds(t) == [i \in 1..Len(t) |-> IF t[i][1] = "stray" THEN "store" ELSE t[i][1]]

\* C1 (as stated): whenever the server is not in the middle of handling a
\* frame (it waits for a frame or a connection, or has stopped), it has
\* sent one response for every frame it has read, whatever the frame's
\* command and parameters.
C1_ResponsePerFrame ==
    s_pc \in {"accept", "recv", "close", "crashed", "killed"} => nSent = nRead

\* C4: for every TRIG frame the response is sent only after the first
\* edge, the hold and the second edge, in this order; once the response to
\* a high pulse on a pin in 0..53 is sent, the last store was the pin's bit
\* to the clear register and the pin is low.
C4_PulseBeforeResponse ==
    (cmd = PI_CMD_TRIG /\ nRead > 0) =>
        LET t == IF hw_trace # <<>> /\ hw_trace[1][1] = "ext"
                 THEN Tail(hw_trace) ELSE hw_trace
        IN /\ s_pc \in {"ext", "mode", "edge1", "hold", "edge2", "send"}
                => nSent < nRead /\ ~Responded
           /\ s_pc = "send" => Kinds(t) = <<"store", "store", "hold", "store">>
           /\ Responded =>
                 Kinds(t) = <<"store", "store", "hold", "store", "send">>
           /\ (Responded /\ level # 0 /\ p1 \in Pins) =>
                 /\ t[4] = <<"store", GPCLR0 + p1 \div 32, {p1 % 32}>>
                 /\ p1 \notin pin_high

C4_Witness ==
    /\ cmd = PI_CMD_TRIG /\ p1 = 17 /\ level # 0 /\ Responded
    /\ 17 \notin pin_high
    /\ Len(s2c[s_fd]) = FrameLen

\* C6: a frame with an unrecognized command code is answered with status
\* -1 without any access to the register block; the connection stays open
\* and the next frame on it is read.
C6_UnknownCommand ==
    (cmd \notin {PI_CMD_WRITE, PI_CMD_TRIG, PI_CMD_PIGPV} /\ nRead > 0) =>
        /\ s_pc \notin {"ext", "mode", "write", "edge1", "hold", "edge2", "crashed"}
        /\ s_pc = "send" => status = -1 /\ hw_trace = <<>>
        /\ Responded =>
              /\ hw_trace = <<(<<"send", -1, {}>>)>>
              /\ answered[Len(answered)] = <<cmd, -1>>
        /\ s_pc = "recv" =>
              /\ srv_open[s_fd]
              /\ Len(c2s[s_fd]) >= FrameLen => ENABLED hc_recv_frame

\* An unknown command was answered -1 and the WRITE that followed it on the
\* same connection was carried out.
C6_Witness ==
    /\ answered = <<(<<999, -1>>), (<<PI_CMD_WRITE, 0>>)>>
    /\ 17 \in pin_high
    /\ srv_open[s_fd]

\* C7: a WRITE frame with pin p1 in 0..53 first sets the pin's
\* function-select field to 001, then stores the pin's bit to the set
\* register (p2 # 0) or the clear register (p2 = 0), then answers status 0.
C7_Write ==
    (cmd = PI_CMD_WRITE /\ p1 \in Pins /\ Responded) =>
        /\ Len(hw_trace) = 3
        /\ hw_trace[1][1] = "store"
        /\ hw_trace[1][2] = GPFSEL0 + p1 \div 10
        /\ hw_trace[1][3] \cap Field(p1) = {3 * (p1 % 10)}
        /\ Word(gpio_map, GPFSEL0 + p1 \div 10) \cap Field(p1) = {3 * (p1 % 10)}
        /\ hw_trace[2] = <<"store", (IF p2 # 0 THEN GPSET0 ELSE GPCLR0) + p1 \div 32,
                           {p1 % 32}>>
        /\ hw_trace[3] = <<"send", 0, {}>>
        /\ p2 # 0 <=> p1 \in pin_high

\* Both levels written: pin 17 high, then pin 53 low.
C7_Witness ==
    /\ answered = <<(<<PI_CMD_WRITE, 0>>), (<<PI_CMD_WRITE, 0>>)>>
    /\ cmd = PI_CMD_WRITE /\ p1 = 53 /\ p2 = 0 /\ Responded
    /\ 17 \in pin_high

\* C8: a TRIG frame with pin p1 in 0..53, its extension delivered when it
\* declares one of 4 bytes: with p3 = 4 the server consumes exactly the 4
\* bytes after the frame and level is the u32 the sender put there,
\* otherwise it consumes nothing and level is 1; it sets the field to 001,
\* then set, hold, clear (level # 0) or clear, hold, set (level = 0), then
\* answers 0.  The frame of the client's trig has no extension: high pulse.
C8_Trig ==
    (/\ cmd = PI_CMD_TRIG /\ p1 \in Pins /\ Responded
     /\ p3 = ExtLen => sent_len[s_fd] >= FrameOff + FrameLen + ExtLen) =>
        LET t == IF p3 = ExtLen THEN Tail(hw_trace) ELSE hw_trace
            first == IF level # 0 THEN GPSET0 ELSE GPCLR0
            second == IF level # 0 THEN GPCLR0 ELSE GPSET0
        IN /\ p3 = ExtLen =>
                /\ hw_trace[1] = <<"ext", 4, {}>>
                /\ rd_off = FrameOff + FrameLen + 4
                /\ FrameOff \in sent_at[s_fd] =>
                      <<FrameOff + FrameLen, level>> \in ext_sent[s_fd]
           /\ p3 # ExtLen => level = 1 /\ rd_off = FrameOff + FrameLen
           /\ Len(t) = 5
           /\ t[1][1] = "store"
           /\ t[1][2] = GPFSEL0 + p1 \div 10
           /\ t[1][3] \cap Field(p1) = {3 * (p1 % 10)}
           /\ t[2] = <<"store", first + p1 \div 32, {p1 % 32}>>
           /\ t[3] = <<"hold", 1000 * p2, {}>>
           /\ t[4] = <<"store", second + p1 \div 32, {p1 % 32}>>
           /\ t[5] = <<"send", 0, {}>>
           /\ level # 0 <=> p1 \notin pin_high
           /\ <<cmd, p1, p2, p3>> = trig_args(p1, p2) => level # 0

\* A low pulse asked for by a 4-byte extension has been carried out.
C8_Witness ==
    /\ cmd = PI_CMD_TRIG /\ p1 = 17 /\ p3 = ExtLen /\ level = 0 /\ Responded
    /\ 17 \in pin_high

\* C9 (as stated): every frame the server reads starts where the sender
\* started a frame.
C9_FramesAligned ==
    s_fd # 0 => \A i \in 1..Len(frame_at) : frame_at[i] \in sent_at[s_fd]

\* A thread has left the read loop of sendCommand with all 16 bytes and
\* is about to return the status it decodes from them.
Decoding(r) == r.pc = "sc_read" /\ r.totalReceived = FrameLen
\* That status.
Decoded(r) == DecodeU32(SubSeq(r.resBuf, 1, 4))

\* C2 (as stated): the 16 bytes a command decodes are the Nth response on
\* the connection when its frame was the Nth request, and the status it
\* returns is the one the server produced for that frame.
C2_NthResponse ==
    \A t \in Threads :
        Decoding(th[t]) =>
            /\ th[t].from = FrameLen * (th[t].req - 1)
            /\ s_fd = th[t].fd =>
                  /\ Len(answered) >= th[t].req
                  /\ answered[th[t].req] = <<th[t].cmd, Decoded(th[t])>>

\* C3 (as stated): no two commands are at the same time past the write of
\* their frame and still reading on one connection.
C3_OneOutstanding ==
    \A t, u \in Threads :
        (t # u /\ reading(th[t]) /\ reading(th[u])) => th[t].fd # th[u].fd

VersionFrame ==
    (cmd = PI_CMD_PIGPV /\ nRead > 0) =>
        /\ s_pc \notin {"ext", "mode", "write", "edge1", "hold", "edge2", "crashed"}
        /\ s_pc = "send" => status = PIGPV_STATUS /\ hw_trace = <<>>
        /\ Responded => hw_trace = <<(<<"send", PIGPV_STATUS, {}>>)>>

\* C10 (as stated): VERSION is answered 79 without a register write, and
\* the status getVersion returns from a response is positive.
C10_Version ==
    /\ VersionFrame
    /\ \A t \in Threads :
          (th[t].api = "getVersion" /\ Decoding(th[t])) => Decoded(th[t]) > 0

\* C11 (as stated): the server is at a register access of the driver only
\* with a pin in 0..53, and every store of the frame being handled went to
\* the function-select, set or clear word of that pin.
C11_PinValidated ==
    /\ s_pc \in {"mode", "write", "edge1", "hold", "edge2"} => p1 \in Pins
    /\ \A i \in 1..Len(hw_trace) :
          hw_trace[i][1] \in {"store", "stray"} =>
              /\ p1 \in Pins
              /\ hw_trace[i][1] = "store"
              /\ hw_trace[i][2] \in {fsel_index(p1), set_index(p1), clr_index(p1)}

\* The arguments of the call a thread is in are rejected by setMode, write
\* or trig.
InvalidArgs(r) ==
    /\ r.api \in {"setMode", "write", "trig"}
    /\ \/ r.a \notin Pins
       \/ r.api = "trig" /\ r.b \notin 1..100

\* C12: setMode, write and trig with gpio outside 0..53, and trig with
\* pulseLength outside 1..100, return PI_BAD_GPIO (negative) in one step,
\* set lastError, send nothing and leave the socket and both ends of its
\* connection as they were, connected or not.
C12_InvalidArgument ==
    [][\A t \in Threads :
          (th[t].pc = "api" /\ InvalidArgs(th[t]) /\ th'[t] # th[t]) =>
              /\ th'[t].pc = "idle"
              /\ th'[t].ret = PI_BAD_GPIO /\ th'[t].ret < 0
              /\ lastError' \in {"Invalid GPIO number", "Invalid pulse length"}
              /\ UNCHANGED <<socket, net_vars, sent_vars>>]_vars

\* trig with pulse length 101 was rejected on a connected client that has
\* sent the frame of its handshake and nothing else.
C12_Witness ==
    /\ th["msg"].pc = "idle" /\ th["msg"].api = "trig" /\ th["msg"].b = 101
    /\ th["msg"].ret = PI_BAD_GPIO
    /\ lastError = "Invalid pulse length"
    /\ isConnected /\ sent_len[socket] = FrameLen

\* C13 (as stated): when connect() has the version of the handshake and it
\* is <= 0, it returns false with the socket released and lastError left
\* at a non-empty cause other than the one of a failed socket connect.
C13_HandshakeError ==
    [][\A t \in Threads :
          (th[t].pc = "conn_chk" /\ th[t].ret <= 0 /\ th'[t].pc # "conn_chk") =>
              /\ th'[t].ret = 0
              /\ ~isConnected'
              /\ lastError' \notin {"", "Failed to connect"}]_vars

\* The descriptions lastError takes for a negative return value.
ErrorsOf(v) ==
    IF v = PI_NOT_CONNECTED THEN {"Not connected to pigpiod"}
    ELSE IF v = PI_SOCKET_ERROR
    THEN {"Failed to send command", "Socket read error",
          "Incomplete response from pigpiod"}
    ELSE IF v = PI_BAD_GPIO THEN {"Invalid GPIO number", "Invalid pulse length"}
    ELSE {}

\* C14 (as stated): when getVersion, setMode, write or trig returns a
\* negative value to its caller, lastError is a description of that
\* failure.
C14_LastErrorSet ==
    [][\A t \in Threads :
          (/\ th[t].pc \notin {"idle", "conn_tcp", "conn_chk"}
           /\ th[t].api \in {"getVersion", "setMode", "write", "trig"}
           /\ th'[t].pc = "idle"
           /\ th'[t].ret < 0) =>
              lastError' \in ErrorsOf(th'[t].ret)]_vars

\* C15 (as stated): a frame is written only to a connection on which the
\* response to every earlier frame was read in full, that is, on which no
\* earlier command ended in a read error or an incomplete response.
C15_UnusableAfterError ==
    [][\A t \in Threads :
          (th[t].pc = "sc_write" /\ th'[t].pc = "sc_read") =>
              recv_len[socket] = sent_len[socket]]_vars

\* C16: whatever the reads returned, sendCommand leaves the read loop with
\* fewer than 16 bytes only by returning PI_SOCKET_ERROR with lastError
\* set, and returns a decoded status only from a buffer that holds all 16
\* bytes of the response.
C16_NoPartialDecode ==
    [][\A t \in Threads :
          (th[t].pc = "sc_read" /\ th'[t].pc # "sc_read") =>
              IF th[t].totalReceived < FrameLen
              THEN /\ th'[t].ret = PI_SOCKET_ERROR
                   /\ lastError' \in {"Socket read error",
                                      "Incomplete response from pigpiod"}
              ELSE /\ th[t].totalReceived = FrameLen
                   /\ th[t].resBuf = EncodeStatus(switch_status(th[t].cmd))
                   /\ th'[t].ret = switch_status(th[t].cmd)
                   /\ UNCHANGED lastError]_vars

\* All 16 bytes are in the buffer after reads that returned fewer bytes
\* than asked for and reads that returned 0.
C16_Witness ==
    /\ Decoding(th["msg"]) /\ th["msg"].cmd = PI_CMD_MODES
    /\ th["msg"].attempts = 7 /\ ~th["msg"].ones
    /\ Decoded(th["msg"]) = -1

\* C17: a read of the loop that does not end the command is counted, the
\* count never passes 100, and the step after the loop returns: a status,
\* or PI_SOCKET_ERROR when the attempts ran out.
C17_BoundedAttempts ==
    [][\A t \in Threads :
          (th[t].pc = "sc_read" /\ th'[t] # th[t]) =>
              /\ th[t].attempts <= maxAttempts
              /\ th'[t].pc = "sc_read" =>
                    /\ th[t].attempts < maxAttempts
                    /\ th'[t].attempts = th[t].attempts + 1
              /\ th'[t].pc # "sc_read" => th'[t].pc = "idle"
              /\ (th[t].attempts = maxAttempts /\ th[t].totalReceived < FrameLen) =>
                    /\ th'[t].pc = "idle"
                    /\ th'[t].ret = PI_SOCKET_ERROR
                    /\ lastError' = "Incomplete response from pigpiod"]_vars

\* 100 reads that all returned 0 bytes: the command has returned
\* PI_SOCKET_ERROR, incomplete.
C17_Witness ==
    /\ th["msg"].pc = "idle" /\ th["msg"].ret = PI_SOCKET_ERROR
    /\ lastError = "Incomplete response from pigpiod"
    /\ recv_len[socket] = FrameLen

\* C18 (as stated): a read loop whose every read returned exactly 1 byte
\* does not end with a complete response.
C18_OneByteIncomplete ==
    \A t \in Threads :
        (th[t].pc = "sc_read" /\ th[t].attempts > 0 /\ th[t].ones) =>
            th[t].totalReceived < FrameLen

\* C18 (amended): a read loop whose every read returned exactly 1 byte has
\* as many bytes as attempts, ends after 16 attempts, within the budget of
\* 100, with the whole response in the buffer, and returns its status.
C18_OneByteCompletes ==
    [][\A t \in Threads :
          (th[t].pc = "sc_read" /\ th[t].attempts > 0 /\ th[t].ones) =>
              /\ th[t].totalReceived = th[t].attempts
              /\ th[t].attempts <= FrameLen /\ FrameLen < maxAttempts
              /\ ~reading(th[t]) =>
                    /\ th[t].attempts = FrameLen
                    /\ th[t].resBuf = EncodeStatus(switch_status(th[t].cmd))
                    /\ th'[t] # th[t] =>
                          /\ th'[t].pc = "idle"
                          /\ th'[t].ret = switch_status(th[t].cmd)]_vars

\* 16 reads of 1 byte each have filled the buffer.
C18_Witness ==
    /\ th["msg"].pc = "sc_read" /\ th["msg"].ones
    /\ th["msg"].attempts = FrameLen /\ th["msg"].totalReceived = FrameLen

\* A thread is about to run disconnect().
Disconnecting(r) == r.pc = "api" /\ r.api = "disconnect"

\* C19 (as stated): disconnect() on a client that is not connected changes
\* no state of the client.
C19_DisconnectNoChange ==
    [][\A t \in Threads :
          (Disconnecting(th[t]) /\ ~isConnected /\ th'[t] # th[t]) =>
              UNCHANGED <<socket, lastError>>]_vars

\* C19 (amended): disconnect() returns with the socket released and
\* lastError empty whatever the state before; on a client in that state,
\* as a disconnect() leaves it, it changes nothing of the client and of its
\* connections.
C19_DisconnectIdempotent ==
    [][\A t \in Threads :
          (Disconnecting(th[t]) /\ th'[t] # th[t]) =>
              /\ th'[t].pc = "idle" /\ th'[t].ret = 0
              /\ socket' = 0 /\ ~isConnected'
              /\ lastError' = ""
              /\ (socket = 0 /\ lastError = "") =>
                    UNCHANGED <<socket, lastError, recv_len, net_vars, sent_vars>>]_vars

\* disconnect() has returned on a client that an earlier call had already
\* left disconnected: of its three calls only the handshake sent a frame.
C19_Witness ==
    /\ th["msg"].pc = "idle" /\ th["msg"].api = "disconnect"
    /\ n_ops = 3 /\ nconn = 1
    /\ ~cli_open[1] /\ sent_len[1] = FrameLen
    /\ socket = 0 /\ lastError = ""

\* The connections the server has accepted and not closed.
Active == {c \in Conns : srv_open[c]}

\* C20: the server has at most one accepted connection, the one it
\* serves; of a connection that waits to be accepted no byte has been
\* consumed and nothing has been sent on it, so its frames have caused no
\* register write and no response.
C20_OneConnection ==
    /\ Cardinality(Active) <= 1
    /\ \A c \in Active : c = s_fd /\ s_pc \notin {"accept", "crashed", "killed"}
    /\ s_pc = "accept" => Active = {}
    /\ \A i \in 1..Len(backlog) :
          /\ backlog[i] # s_fd
          /\ Len(c2s[backlog[i]]) = sent_len[backlog[i]]
          /\ s2c[backlog[i]] = <<>>
          /\ recv_len[backlog[i]] = 0

\* Two clients are connected at once: the server has answered the first
\* one, whose end is open, while a whole frame of the second waits.
C20_Witness ==
    /\ s_fd # 0 /\ cli_open[s_fd] /\ Responded
    /\ Len(backlog) = 1
    /\ cli_open[backlog[1]]
    /\ Len(c2s[backlog[1]]) = FrameLen
    /\ sent_len[backlog[1]] = FrameLen

\* C21 (as stated): no disconnect of a client, at whatever point of a
\* frame's handling, ends the server process: the server is never killed
\* while it sends the response to a connection the client has closed.
C21_NeverTerminates == s_pc # "killed"

\* C22: main goes on to the next step whether sched_setscheduler and
\* mlockall succeed or fail; it returns before the loop only when init_gpio,
\* socket, bind or listen failed, and otherwise reaches the accept loop,
\* where frames are handled as they are with both granted: VERSION is
\* answered 79, WRITE sets the mode, stores the bit and answers 0, TRIG
\* answers after the whole pulse.
C22_BestEffort ==
    /\ [](/\ s_pc = "exit" <=> boot.fatal # "none"
          /\ boot.fatal \in {"none", "init_gpio", "socket", "bind", "listen"}
          /\ VersionFrame /\ C7_Write /\ C4_PulseBeforeResponse)
    /\ [][/\ s_pc = "sched" => s_pc' = "mlock"
          /\ s_pc = "mlock" => s_pc' = "init_gpio"
          /\ s_pc = "listen" /\ boot'.fatal = "none" => s_pc' = "accept"
          /\ s_pc' = "exit" =>
                /\ s_pc \in {"init_gpio", "socket", "bind", "listen"}
                /\ boot'.fatal = s_pc]_vars

\* Without the real-time priority and without the memory lock the server
\* has answered VERSION and carried out a WRITE of 1 to pin 17.
C22_Witness ==
    /\ boot = [rt |-> "failed", lock |-> "failed", fatal |-> "none"]
    /\ answered = <<(<<PI_CMD_PIGPV, PIGPV_STATUS>>), (<<PI_CMD_WRITE, 0>>)>>
    /\ Responded
    /\ 17 \in pin_high

\* The words of a block that hold a value in either of two contents.
WordsOf(a, b) == DOMAIN a \cup DOMAIN b

\* C23: for every pin in 0..53, every mode and every prior content,
\* gpio_set_mode leaves the 3-bit field of the pin at 001 for OUTPUT and at
\* 000 for any other mode, and changes no other bit: not in the pin's
\* function-select word, where the fields of its neighbours are, and not
\* in any other word of the block.
C23_SetModeField ==
    tst.fn = "gpio_set_mode" =>
        LET w == GPFSEL0 + tst.gpio \div 10
            lo == 3 * (tst.gpio % 10)
        IN /\ tst.gpio \in Pins
           /\ Word(gpio_map, w) \cap Field(tst.gpio)
                 = (IF tst.arg = PI_OUTPUT THEN {lo} ELSE {})
           /\ Word(gpio_map, w) \ Field(tst.gpio)
                 = Word(tst.before, w) \ Field(tst.gpio)
           /\ \A q \in {tst.gpio - 1, tst.gpio + 1} \cap Pins :
                 q \div 10 = tst.gpio \div 10 =>
                    Word(gpio_map, w) \cap Field(q)
                       = Word(tst.before, w) \cap Field(q)
           /\ \A i \in WordsOf(gpio_map, tst.before) \ {w} :
                 Word(gpio_map, i) = Word(tst.before, i)
           /\ pin_high = tst.high

\* Pin 18 was set to OUTPUT in a word of all ones: its field reads 001 and
\* the fields of pins 17 and 19 still read 111.
C23_Witness ==
    /\ tst.fn = "gpio_set_mode" /\ tst.gpio = 18 /\ tst.arg = PI_OUTPUT
    /\ Word(tst.before, 1) = AllBits
    /\ Word(gpio_map, 1) = AllBits \ {25, 26}

\* The pins of the writes a block under test has seen.
EarlierPins == {tst.earlier[i][1] : i \in 1..Len(tst.earlier)}

\* C24 (as stated): after gpio_write(pin, level), earlier writes having
\* gone to other pins only, the block read back has the pin's bit set in
\* the set word (level 1) or the clear word (level 0) of the pin, and every
\* other bit of the block is as it was before the call.
C24_WriteReadBack ==
    (tst.fn = "gpio_write" /\ tst.gpio \notin EarlierPins) =>
        LET w == (IF tst.arg # 0 THEN GPSET0 ELSE GPCLR0) + tst.gpio \div 32
            bit == tst.gpio % 32
        IN /\ bit \in Word(gpio_map, w)
           /\ Word(gpio_map, w) \ {bit} = Word(tst.before, w) \ {bit}
           /\ \A i \in WordsOf(gpio_map, tst.before) \ {w} :
                 Word(gpio_map, i) = Word(tst.before, i)

\* C24 (amended): gpio_write(pin, level) stores to the set word (level
\* nonzero) or the clear word (level 0) of the pin the word whose only 1-bit
\* is the pin's, whatever the word held, and changes no other word of the
\* block; on the chip, where a 1 stored to these words acts on its pin and a
\* 0 on none, the pin is driven to the level and every other pin stays as
\* it was.
C24_WriteStoresBit ==
    tst.fn = "gpio_write" =>
        LET w == (IF tst.arg # 0 THEN GPSET0 ELSE GPCLR0) + tst.gpio \div 32
        IN /\ Word(gpio_map, w) = {tst.gpio % 32}
           /\ \A i \in WordsOf(gpio_map, tst.before) \ {w} :
                 Word(gpio_map, i) = Word(tst.before, i)
           /\ pin_high = (IF tst.arg # 0 THEN tst.high \cup {tst.gpio}
                          ELSE tst.high \ {tst.gpio})

\* Pin 17 was written 1 after pin 18 had been: the set word reads back the
\* bit of pin 17 alone, and both pins are high.
C24_Witness ==
    /\ tst.fn = "gpio_write" /\ tst.gpio = 17 /\ tst.arg = 1
    /\ tst.earlier = <<(<<18, 1>>)>>
    /\ Word(tst.before, GPSET0) = {18}
    /\ Word(gpio_map, GPSET0) = {17}
    /\ pin_high = {17, 18}

\* C25: a frame on the wire is 16 bytes, each in 0..255, every word least
\* significant byte first, and the four words the server decodes from it
\* are, as uint32_t, the four the client encoded, 0 and 2^32 - 1 included; a response on the wire is 16 bytes of
\* which the last 12 are zero, and the int32_t the client decodes from it is
\* the status the server encoded.
C25_RoundTrip ==
    /\ tst.fn \in {"frame", "status"} /\ tst.at # "in" =>
          /\ Len(tst.wire) = FrameLen
          /\ \A i \in 1..FrameLen : tst.wire[i] \in 0..255
    /\ tst.fn = "frame" /\ tst.at # "in" =>
          \A i \in 1..4 :
             SubSeq(tst.wire, 4 * i - 3, 4 * i)
                = <<tst.in[i][2] % 256, tst.in[i][2] \div 256,
                    tst.in[i][1] % 256, tst.in[i][1] \div 256>>
    /\ tst.fn = "frame" /\ tst.at = "out" =>
          [i \in 1..4 |-> Halves(tst.out[i])] = tst.in
    /\ tst.fn = "status" /\ tst.at # "in" =>
          SubSeq(tst.wire, 5, FrameLen) = [i \in 1..12 |-> 0]
    /\ tst.fn = "status" /\ tst.at = "out" => tst.out = tst.in

\* The frame of the largest and the smallest words has been decoded.
C25_Witness ==
    /\ tst.fn = "frame" /\ tst.at = "out"
    /\ tst.in = <<(<<65535, 65535>>), (<<0, 0>>), (<<32768, 0>>),
                  (<<65535, 65535>>)>>
    /\ tst.wire = <<255, 255, 255, 255, 0, 0, 0, 0, 0, 0, 0, 128,
                    255, 255, 255, 255>>
    /\ tst.out = <<-1, 0, -2147483647 - 1, -1>>

\* C26 (as stated): the status setMode decodes from the response to its
\* own MODES frame is 0, and the function-select field of the pin then
\* holds the mode asked for.
C26_SetModeAccepted ==
    \A t \in Threads :
        (/\ th[t].api = "setMode" /\ Decoding(th[t])
         /\ th[t].from = FrameLen * (th[t].req - 1)) =>
            /\ Decoded(th[t]) = 0
            /\ Word(gpio_map, fsel_index(th[t].a)) \cap Field(th[t].a)
                  = (IF th[t].b = PI_OUTPUT THEN {fsel_shift(th[t].a)} ELSE {})

\* C27: connect() first closes the connection the client had; it returns
\* true only from the check of a version > 0 that getVersion() decoded from
\* the first response on the new connection, and the client is then
\* connected to it; when it returns false, because the TCP connect or the
\* handshake failed, the socket is released and isConnected() is false.
C27_ConnectResult ==
    [][\A t \in Threads :
          /\ (th[t].pc = "api" /\ th[t].api = "connect" /\ th'[t] # th[t]) =>
                /\ th'[t].pc = "conn_tcp"
                /\ ~isConnected'
                /\ isConnected => ~cli_open'[socket]
          /\ (th[t].api = "connect" /\ th[t].pc # "idle" /\ th'[t].pc = "idle") =>
                /\ th'[t].ret \in {0, 1}
                /\ th'[t].ret = 1 =>
                      /\ th[t].pc = "conn_chk" /\ th[t].ret > 0
                      /\ isConnected' /\ socket' = socket
                      /\ cli_open'[socket]
                      /\ sent_len[socket] = FrameLen
                      /\ recv_len[socket] = FrameLen
                /\ th'[t].ret = 0 =>
                      /\ th[t].pc \in {"conn_tcp", "conn_chk"}
                      /\ th[t].pc = "conn_chk" => th[t].ret <= 0
                      /\ socket' = 0 /\ ~isConnected'
                      /\ \A c \in Conns : ~cli_open'[c]]_vars

\* A second connect() has returned true: the first connection is closed,
\* the client is connected to the second.
C27_Witness ==
    /\ th["msg"].pc = "idle" /\ th["msg"].api = "connect" /\ th["msg"].ret = 1
    /\ nconn = 2 /\ socket = 2
    /\ ~cli_open[1] /\ cli_open[2]

\* C28: a TTL event starts a TRIG of the configured pin and duration
\* exactly when it is a rising edge on the input line that arrives while
\* the plugin is connected and the gate is open, and with a gate line
\* configured the gate is open only if the latest event on that gate line
\* was a rising edge.
C28_GatedPulse ==
    /\ [](gate_line # 0 /\ gateIsOpen => gate_ev.gate = "rise")
    /\ [][LET pulse == /\ th["audio"].pc = "idle"
                       /\ th'["audio"].pc = "api"
                       /\ th'["audio"].api = "trig"
              event == pulse \/ gate_ev'.last # gate_ev.last
          IN event =>
               /\ pulse <=> /\ connected
                            /\ gateIsOpen'
                            /\ gate_ev'.last = <<input_line, TRUE>>
               /\ pulse => /\ th'["audio"].a = gpio_pin
                           /\ th'["audio"].b = pulse_duration]_vars

\* C29: the server leaves its frame read for the switch only with the 16
\* bytes of a frame, which it decodes; when the read ends with fewer than
\* 16 bytes (none after an orderly close, a part of a frame otherwise) the
\* server writes no register and sends no response, closes the socket of
\* that connection and is back at accept.
C29_CompleteFrameOnly ==
    [][/\ (s_pc = "recv" /\ s_pc' # "recv" /\ Len(c2s[s_fd]) >= FrameLen) =>
            /\ s_pc' \notin {"close", "accept"}
            /\ <<cmd', p1', p2', p3'>> = DecodeFrame(Take(c2s[s_fd], FrameLen))
            /\ frame_at' = Append(frame_at, rd_off)
       /\ (s_pc = "recv" /\ s_pc' # "recv" /\ Len(c2s[s_fd]) < FrameLen) =>
            /\ s_pc' = "close"
            /\ UNCHANGED <<s_fd, gpio_map, pin_high, s2c, answered, frame_at,
                           srv_open>>
       /\ (s_pc = "close" /\ s_pc' # "close") =>
            /\ s_pc' = "accept"
            /\ ~srv_open'[s_fd]
            /\ UNCHANGED <<gpio_map, pin_high, s2c, answered, frame_at>>]_vars

\* C29 (witness): a connection closed by its peer in the middle of a frame
\* has been closed by the server, which is back at accept.
C29_Witness ==
    /\ s_pc = "accept"
    /\ hw_trace # <<>>
    /\ LastEv[1] = "eof"
    /\ LastEv[2] \in 1..(FrameLen - 1)
    /\ \E c \in Conns : ~cli_open[c] /\ ~srv_open[c] /\ sent_len[c] > 0

\* The nanosecond count us * 1000 as an integer of any width, as the
\* halves <<high, low>> with the high half left unbounded.
ns_exact(us) ==
    LET lo == us % 65536
        hi == (us \div 65536) % 65536
        a  == lo * 1000
    IN <<hi * 1000 + a \div 65536, a % 65536>>

\* C30: for every duration p2 of a TRIG frame, the hold between the two
\* edges is p2 microseconds: the nanosecond count delay_us computes is
\* p2 * 1000 without wrap-around at 32 bits, it is below 10^9, and it is
\* what the sleep is asked for.
C30_HoldIsP2 ==
    (s_pc = "edge2" /\ hw_trace # <<>> /\ LastEv[1] = "hold") =>
        /\ ns_halves(p2) = ns_exact(p2)
        /\ ns_valid(ns_exact(p2))
        /\ LastEv[2] = ns_exact(p2)[1] * 65536 + ns_exact(p2)[2]

\* C31: a word of the register block or the level of a pin changes only in
\* a step of the WRITE or TRIG case (gpio_set_mode, gpio_write, the two
\* edges of gpio_trig); the accept of a connection, a peer connecting or
\* closing, a failed frame read and the close of the socket leave every
\* word and every level as they were.
C31_OnlyWriteAndTrig ==
    [][/\ (gpio_map' # gpio_map \/ pin_high' # pin_high) =>
            /\ s_pc \in {"mode", "write", "edge1", "edge2"}
            /\ cmd \in {PI_CMD_WRITE, PI_CMD_TRIG}
       /\ (s_pc \in {"accept", "close"} \/ s_pc' \in {"close", "accept"}
           \/ cli_open' # cli_open \/ srv_open' # srv_open) =>
            UNCHANGED <<gpio_map, pin_high>>]_vars

\* C31 (witness): the second connection is being served and a pin written
\* high on the first one, now closed, is still high.
C31_Witness ==
    /\ s_pc = "recv" /\ s_fd = 2
    /\ ~srv_open[1] /\ ~cli_open[1]
    /\ answered = <<>>
    /\ 17 \in pin_high
    /\ Word(gpio_map, GPSET0) = {17}

\* A thread is about to run a command with arguments the client accepts.
Commanding(r) ==
    /\ r.pc = "api"
    /\ r.api \in {"getVersion", "setMode", "write", "trig"}
    /\ ~InvalidArgs(r)

\* C32: getVersion, and setMode, write and trig with valid arguments, on a
\* client that is not connected return PI_NOT_CONNECTED (-1) in one step,
\* set lastError, and send no byte: the socket and every connection are as
\* they were.
C32_NotConnected ==
    [][\A t \in Threads :
          (Commanding(th[t]) /\ ~isConnected /\ th'[t] # th[t]) =>
              /\ th'[t].pc = "idle"
              /\ th'[t].ret = PI_NOT_CONNECTED /\ th'[t].ret = -1
              /\ lastError' = "Not connected to pigpiod"
              /\ UNCHANGED <<socket, recv_len, net_vars, sent_vars>>]_vars

\* C32 (witness): write returned PI_NOT_CONNECTED after a connect() whose
\* handshake failed: the frame of the handshake is all that was sent.
C32_Witness ==
    /\ th["msg"].pc = "idle" /\ th["msg"].api = "write"
    /\ th["msg"].ret = PI_NOT_CONNECTED
    /\ lastError = "Not connected to pigpiod"
    /\ n_ops = 2 /\ nconn = 1
    /\ socket = 0 /\ ~cli_open[1]
    /\ sent_len[1] = FrameLen /\ recv_len[1] = 0

\* C33: when the read of the 4-byte extension of a TRIG frame ended with
\* fewer than 4 bytes, because the connection closed or failed, the server
\* executes no pulse for the frame: no store to a set or clear register
\* and no hold follow the short read.
C33_NoPulseOnShortExtension ==
    \A i \in 1..Len(hw_trace) :
        (hw_trace[i][1] = "ext" /\ hw_trace[i][2] < ExtLen) =>
            \A j \in (i + 1)..Len(hw_trace) :
                /\ hw_trace[j][1] # "hold"
                /\ hw_trace[j][1] = "store" => hw_trace[j][2] \in 0..5

\* C34: no thread is inside sendCommand, past the isConnected check and
\* about to call socket->write or socket->read, while the socket has been
\* closed and released by disconnect() on another thread, and no thread has
\* made such a call.
C34_NoUseAfterRelease ==
    \A t \in Threads :
        /\ (th[t].pc = "sc_write" \/ reading(th[t])) => socket # 0
        /\ th[t].pc # "dead"

\* ------------------------------------------------------- specification
Server ==
    \/ main_accept
    \/ hc_recv_frame
    \/ hc_recv_fail
    \/ hc_ext
    \/ hc_set_mode
    \/ hc_write
    \/ hc_trig_first
    \/ hc_trig_hold
    \/ hc_trig_second
    \/ hc_fault
    \/ hc_stray
    \/ hc_send
    \/ hc_send_lost
    \/ hc_send_sigpipe
    \/ hc_close

Peer ==
    \/ PeerConnect
    \/ \E f \in PeerFrames : PeerSend(f)
    \/ \E l \in PeerLevels : PeerSendExt(l)
    \/ PeerClose

Next == Server \/ Peer

\* The server and a raw peer.
Spec == Init /\ [][Next]_vars

Client == \E c \in ApiCalls : call(c)

\* The server where the frames of PigpiodClient take it: p3 is 0 and the
\* pin of a WRITE or TRIG is in 0..53, so it reads no extension and stays
\* inside the register block.
ServerOfClient ==
    \/ main_accept
    \/ hc_recv_frame
    \/ hc_recv_fail
    \/ hc_set_mode
    \/ hc_write
    \/ hc_trig_first
    \/ hc_trig_hold
    \/ hc_trig_second
    \/ hc_send
    \/ hc_send_lost
    \/ hc_send_sigpipe
    \/ hc_close

NextClient == ServerOfClient \/ Client \/ client_step("msg")

\* The server and one thread that uses a PigpiodClient.
SpecClient == Init /\ [][NextClient]_vars

Plugin ==
    \/ buttonClicked
    \/ stopAcquisition
    \/ \E v \in GateLines : gate_line_changed(v)
    \/ \E g \in GpioPins : gpio_pin_changed(g)
    \/ \E e \in EventBits, s \in BOOLEAN : handleTTLEvent(e, s)

NextPlugin ==
    \/ ServerOfClient
    \/ Plugin
    \/ \E t \in Threads : client_step(t) \/ sc_released(t)

\* The server and the plugin with its two threads.
SpecPlugin == Init /\ [][NextPlugin]_vars

\* ------------------------------------------- the read loop of sendCommand
\* The commands whose response is read: answered 79 and -1 by the server.
ReadCalls == {Api("getVersion", 0, 0), Api("setMode", 17, PI_OUTPUT)}

\* The frame of a call.
args_of(c) ==
    IF c.api = "getVersion" THEN getVersion_args ELSE setMode_args(c.a, c.b)

\* A client that has connected (handshake answered) and, in a second call,
\* has written the frame of a command and enters the read loop.
InitRead ==
    /\ s_pc = "recv" /\ s_fd = 1
    /\ cmd = PI_CMD_PIGPV /\ p1 = 0 /\ p2 = 0 /\ p3 = 0
    /\ level = 1 /\ status = PIGPV_STATUS
    /\ gpio_map = [i \in 0..5 |-> {}]
    /\ pin_high = {}
    /\ hw_trace = <<Ev("send", PIGPV_STATUS, {})>>
    /\ answered = <<(<<PI_CMD_PIGPV, PIGPV_STATUS>>)>>
    /\ rd_off = FrameLen /\ frame_at = <<0>>
    /\ nconn = 1 /\ backlog = <<>>
    /\ s2c = [c \in Conns |-> <<>>]
    /\ cli_open = [c \in Conns |-> c = 1]
    /\ srv_open = [c \in Conns |-> c = 1]
    /\ sent_len = [c \in Conns |-> IF c = 1 THEN 2 * FrameLen ELSE 0]
    /\ sent_at = [c \in Conns |-> IF c = 1 THEN {0, FrameLen} ELSE {}]
    /\ ext_sent = [c \in Conns |-> {}]
    /\ InitPeer
    /\ socket = 1 /\ lastError = ""
    /\ recv_len = [c \in Conns |-> IF c = 1 THEN FrameLen ELSE 0]
    /\ connected = FALSE /\ gateIsOpen = TRUE
    /\ gpio_pin = gpio_pin_default /\ gate_line = 0
    /\ n_ops = 2
    /\ InitAux
    /\ \E c \in ReadCalls :
          /\ c2s = [k \in Conns |->
                      IF k = 1 THEN EncodeFrame(args_of(c)[1], args_of(c)[2],
                                                args_of(c)[3], 0)
                      ELSE <<>>]
          /\ th = [t \in Threads |->
                     IF t = "msg"
                     THEN [IdleThread EXCEPT !.pc = "sc_read", !.op = "call",
                              !.api = c.api, !.a = c.a, !.b = c.b,
                              !.cmd = args_of(c)[1], !.p1 = args_of(c)[2],
                              !.p2 = args_of(c)[3],
                              !.fd = 1, !.req = 2, !.ret = 1]
                     ELSE IdleThread]

\* The next k bytes of the response to the frame arrive at the client: the
\* response the server sends for the command, in segments of any length.
deliver(k) ==
    /\ th["msg"].pc = "sc_read"
    /\ socket > 0
    /\ LET r == th["msg"]
           d == recv_len[socket] + Len(s2c[socket]) - FrameLen * (r.req - 1)
           stream == EncodeStatus(switch_status(r.cmd))
       IN /\ d + k <= FrameLen
          /\ s2c' = [s2c EXCEPT ![socket] = @ \o SubSeq(stream, d + 1, d + k)]
    /\ UNCHANGED <<nconn, backlog, c2s, cli_open, srv_open>>
    /\ UNCHANGED <<srv_vars, sent_vars, peer_vars, hist_vars, client_vars, aux_vars>>

NextRead ==
    \/ \E k \in 1..FrameLen : deliver(k)
    \/ sc_read("msg")
    \/ sc_read_zero("msg")
    \/ sc_read_error("msg")
    \/ sc_decode("msg")

\* One command of the client in its read loop, the reads returning any
\* number of the response's bytes, 0, or an error.
SpecRead == InitRead /\ [][NextRead]_vars

\* The frames of the second program, the calls of the first.
OtherFrames == {write_args(17, 1)}
TwoCalls ==
    {Api("connect", 0, 0), Api("disconnect", 0, 0), Api("getVersion", 0, 0),
     Api("setMode", 17, PI_OUTPUT), Api("write", 17, 0), Api("trig", 17, 50)}

NextTwo ==
    \/ ServerOfClient
    \/ \E c \in TwoCalls : call(c)
    \/ client_step("msg")
    \/ PeerConnect
    \/ \E f \in OtherFrames : PeerSend(f)
    \/ PeerClose

\* The server with two clients at once: a PigpiodClient and another
\* program that speaks the protocol.
SpecTwo == Init /\ [][NextTwo]_vars

\* ------------------------------------------------------ startup of main
\* The process at the first statement of main.
InitBoot ==
    /\ s_pc = "sched"
    /\ s_fd = 0
    /\ cmd = 0 /\ p1 = 0 /\ p2 = 0 /\ p3 = 0
    /\ level = 1
    /\ status = 0
    /\ \E f \in InitFsel : gpio_map = [i \in 0..5 |-> f]
    /\ pin_high = {}
    /\ InitNet /\ InitPeer /\ InitHist /\ InitClient
    /\ boot = [rt |-> "unset", lock |-> "unset", fatal |-> "none"]
    /\ gate_ev = NoEvent
    /\ tst = NoTest

Startup ==
    \/ \E ok \in BOOLEAN : main_sched(ok)
    \/ \E ok \in BOOLEAN : main_mlockall(ok)
    \/ \E ok \in BOOLEAN : main_init_gpio(ok)
    \/ \E ok \in BOOLEAN : main_socket(ok)
    \/ \E ok \in BOOLEAN : main_bind(ok)
    \/ \E ok \in BOOLEAN : main_listen(ok)

\* The frames sent to the server that has started: one of each command.
BootFrames ==
    {getVersion_args, write_args(17, 1), trig_args(17, 50),
     setMode_args(17, PI_OUTPUT)}

NextBoot ==
    \/ Startup
    \/ ServerOfClient
    \/ PeerConnect
    \/ \E f \in BootFrames : PeerSend(f)
    \/ PeerClose

\* main from its first statement, then the server and a raw peer.
SpecBoot == InitBoot /\ [][NextBoot]_vars

\* ---------------------------------------------------- the plugin's gate
\* The plugin after connectToPigpiod succeeded (handshake, getVersion,
\* setMode answered -1, write of PI_LOW), gate_line was set to 2 and a
\* rising edge arrived on line 2: every frame is answered, both threads
\* are idle, the gate is open.
GateOpened ==
    /\ s_pc = "recv" /\ s_fd = 1
    /\ cmd = PI_CMD_WRITE /\ p1 = gpio_pin_default /\ p2 = PI_LOW /\ p3 = 0
    /\ level = 1 /\ status = 0
    /\ \E f \in InitFsel :
          LET m == gpio_set_mode([i \in 0..5 |-> f], gpio_pin_default, PI_OUTPUT)
          IN /\ gpio_map = gpio_write(m, gpio_pin_default, PI_LOW)
             /\ hw_trace =
                  <<Ev("store", fsel_index(gpio_pin_default),
                       Word(m, fsel_index(gpio_pin_default))),
                    Ev("store", clr_index(gpio_pin_default),
                       Shl({0}, pin_bit(gpio_pin_default))),
                    Ev("send", 0, {})>>
    /\ pin_high = {}
    /\ answered = <<(<<PI_CMD_PIGPV, PIGPV_STATUS>>),
                    (<<PI_CMD_PIGPV, PIGPV_STATUS>>),
                    (<<PI_CMD_MODES, -1>>), (<<PI_CMD_WRITE, 0>>)>>
    /\ rd_off = 4 * FrameLen
    /\ frame_at = <<0, FrameLen, 2 * FrameLen, 3 * FrameLen>>
    /\ nconn = 1 /\ backlog = <<>>
    /\ c2s = [c \in Conns |-> <<>>]
    /\ s2c = [c \in Conns |-> <<>>]
    /\ cli_open = [c \in Conns |-> c = 1]
    /\ srv_open = [c \in Conns |-> c = 1]
    /\ sent_len = [c \in Conns |-> IF c = 1 THEN 4 * FrameLen ELSE 0]
    /\ sent_at = [c \in Conns |->
                    IF c = 1 THEN {0, FrameLen, 2 * FrameLen, 3 * FrameLen}
                    ELSE {}]
    /\ ext_sent = [c \in Conns |-> {}]
    /\ InitPeer
    /\ socket = 1 /\ lastError = ""
    /\ recv_len = [c \in Conns |-> IF c = 1 THEN 4 * FrameLen ELSE 0]
    /\ th = [t \in Threads |-> IdleThread]
    /\ connected = TRUE /\ gateIsOpen = TRUE
    /\ gpio_pin = gpio_pin_default /\ gate_line = 2
    /\ boot = Booted /\ tst = NoTest
    /\ gate_ev = [gate |-> "rise", last |-> <<2, TRUE>>]

InitGate == GateOpened /\ n_ops = 0

\* The server and the plugin with its two threads, from the open gate.
SpecGate == InitGate /\ [][NextPlugin]_vars

\* ------------------------------------------------- the hold of a pulse
\* The durations of the TRIG frames: the range of the plugin's parameter
\* (10..100), lengths around one second, around the 32-bit range of the
\* nanosecond count, and the largest a frame can carry (2^32 - 1, carried
\* as -1).
Durations == {1, 50, 100, 999999, 1000000, 4294967, 4294968, -1}

HoldFrames ==
    {trig_args(17, d) : d \in Durations} \cup {write_args(17, 1)}

NextHold ==
    \/ ServerOfClient
    \/ PeerConnect
    \/ \E f \in HoldFrames : PeerSend(f)
    \/ PeerClose

\* The server and a raw peer that sends pulses of every length.
SpecHold == Init /\ [][NextHold]_vars

====
